---- MODULE Spec2Model ----
(***************************************************************************)
(* Task engine (services/task_queue.py), the episode status machine        *)
(* (models/episode.py) and the stage orchestrators (api/episodes.py,       *)
(* api/transcripts.py, api/summaries.py) of the podcast backend.           *)
(*                                                                         *)
(* Threads: the Flask request threads (Handlers), one cancel request       *)
(* thread, the thread that calls shutdown(), and the ThreadPoolExecutor    *)
(* workers running one wrapper() per submitted task.  The in-memory write  *)
(* and the Status Store write of _update_status are separate steps; the    *)
(* dictionary assignments of one in-memory write are one step.  A progress *)
(* callback writes only                                                    *)
(* the field "progress", which no other thread writes and no thread reads  *)
(* to take a decision, so it is one step.                                  *)
(*                                                                         *)
(* SpecQueue: the task engine alone, running opaque jobs (any callable     *)
(* that reports progress and returns or raises), with cancel requests,     *)
(* shutdown and Status Store writes that may raise.                        *)
(* Spec: the stage orchestrators with their real job bodies on top of the  *)
(* engine, with a reliable store.                                          *)
(***************************************************************************)
EXTENDS Integers, Sequences, FiniteSets, TLC

\* ----------------------------------------------------------------- bounds
MaxTasks == 2
MaxStoreFaults == 1

\* Values an opaque job passes to its progress callback.
ProgressValues == {0 - 1, 101}

\* ------------------------------------------------------ program constants
max_workers == 3

TaskIds == 1..MaxTasks
Episodes == {"e1"}
Handlers == {"h1", "h2"}

\* models/task.py
TYPE_DOWNLOAD == "download"
TYPE_TRANSCRIBE == "transcribe"
TYPE_SUMMARIZE == "summarize"
TYPE_REFRESH == "refresh"
STATUS_PENDING == "pending"
STATUS_PROCESSING == "processing"
STATUS_COMPLETED == "completed"
STATUS_FAILED == "failed"

\* models/episode.py
STATUS_NEW == "new"
STATUS_DOWNLOADING == "downloading"
STATUS_DOWNLOADED == "downloaded"
STATUS_TRANSCRIBING == "transcribing"
STATUS_TRANSCRIBED == "transcribed"
STATUS_SUMMARIZING == "summarizing"
STATUS_SUMMARIZED == "summarized"
STATUS_ERROR == "error"

Stages == {TYPE_DOWNLOAD, TYPE_TRANSCRIBE, TYPE_SUMMARIZE}

can_download(status) == status = STATUS_NEW
can_transcribe(status) == status = STATUS_DOWNLOADED
can_summarize(status) == status = STATUS_TRANSCRIBED

\* The guard of the episode model for a stage.
can_enter(stage, status) ==
    CASE stage = TYPE_DOWNLOAD -> can_download(status)
      [] stage = TYPE_TRANSCRIBE -> can_transcribe(status)
      [] OTHER -> can_summarize(status)

\* The status a handler writes right after submitting the stage's task.
InProgressStatus(stage) ==
    CASE stage = TYPE_DOWNLOAD -> STATUS_DOWNLOADING
      [] stage = TYPE_TRANSCRIBE -> STATUS_TRANSCRIBING
      [] OTHER -> STATUS_SUMMARIZING

\* The status a stage's job writes when its work succeeded.
ExitStatus(stage) ==
    CASE stage = TYPE_DOWNLOAD -> STATUS_DOWNLOADED
      [] stage = TYPE_TRANSCRIBE -> STATUS_TRANSCRIBED
      [] OTHER -> STATUS_SUMMARIZED

\* Position of a status on the linear pipeline (error is off the line).
Rank(status) ==
    CASE status = STATUS_NEW -> 0
      [] status = STATUS_DOWNLOADING -> 1
      [] status = STATUS_DOWNLOADED -> 2
      [] status = STATUS_TRANSCRIBING -> 3
      [] status = STATUS_TRANSCRIBED -> 4
      [] status = STATUS_SUMMARIZING -> 5
      [] status = STATUS_SUMMARIZED -> 6
      [] OTHER -> 0 - 1

VARIABLES
    tasks,        \* TaskQueue.tasks: task_id -> task_info (in memory)
    db_tasks,     \* db.tasks: task_id -> document (Status Store)
    queue,        \* work queue of the ThreadPoolExecutor (FIFO of task ids)
    wpc,          \* position of wrapper() of each task
    jpc,          \* position of the job body of each task
    jexc,         \* exception wrapper() of each task caught ("None" if none)
    params,       \* arguments the closure of each task captured
    episodes,     \* db.episodes: id -> [status, has_transcript, has_summary, ...]
    transcripts,  \* db.transcripts: episode ids that have a transcript
    summaries,    \* db.summaries: <<episode, identifier field>> of the stored summaries
    hpc,          \* position of each request handler thread
    hreq,         \* locals of each request handler thread
    resp,         \* code of the last response a stage request handler sent
    cpc,          \* position of the cancel request thread
    ctask,        \* task id the cancel request is about
    cret,         \* return value of the last finished cancel()
    spc,          \* position of the thread that called shutdown()
    faults,       \* Status Store writes that raised so far
    invoked,      \* history: number of times func() of a task was called
    outcome,      \* history: how func() of a task really ended
    cancelled,    \* history: cancel() returned True for the task
    pre,          \* history: episode status the submitting request read
    epc,          \* position of a SummarizationEngine call
    ecall,        \* arguments of that call
    messages,     \* the prompt: blocks it describes and correction hints added
    attempt,      \* loop variable of _call_with_retry
    data,         \* the local data of _call_with_retry (<< >> before an answer)
    eret,         \* what the call returned (<< >> while it has not)
    eexc,         \* the exception the call raised ("None" if none)
    summary_docs, \* db.summaries as the engine writes it: a list of documents
    llm_calls,    \* history: the messages of each chat_json invocation
    llm_outcomes, \* history: how each attempt ended
    validated,    \* history: the block ids each validate() call was given
    arg,          \* arguments of a call of one of the pure helpers
    ret,          \* its return value (<< >> while it has not returned)
    executor      \* the pool of the queue: the max_workers it was built with

vars == <<tasks, db_tasks, queue, wpc, jpc, jexc, params, episodes, transcripts,
          summaries, hpc, hreq, resp, cpc, ctask, cret, spc, faults, invoked,
          outcome, cancelled, pre, epc, ecall, messages, attempt, data, eret,
          eexc, summary_docs, llm_calls, llm_outcomes, validated, arg, ret, executor>>

engineVars == <<tasks, db_tasks, queue, wpc, jpc, jexc, faults, invoked, outcome>>
entityVars == <<episodes, transcripts, summaries>>
handlerVars == <<hpc, hreq, resp, params, pre>>
\* The threads that call cancel() and shutdown() on the queue.
cancelVars == <<cpc, ctask, cret, cancelled, spc>>
\* A call of the summarization engine, and a call of one of its helpers.
summarizeVars == <<epc, ecall, messages, attempt, data, eret, eexc, summary_docs,
                   llm_calls, llm_outcomes, validated>>
functionVars == <<arg, ret>>
libVars == <<summarizeVars, functionVars>>

\* task_info as created by submit (task_queue.py 55-67); times are set/unset.
NewTask(type, ep) ==
    [task_type |-> type, episode_id |-> ep, status |-> STATUS_PENDING,
     progress |-> 0, result |-> "None", error_message |-> "None",
     started_at |-> FALSE, completed_at |-> FALSE]

NoReq == [stage |-> "none", ep |-> "none", force |-> FALSE, active |-> FALSE,
          task_id |-> 0, status |-> "none", by |-> "none"]

NoParams == [force |-> FALSE, active |-> FALSE]

\* Episode documents a request can find: a new episode (Episode.create), one
\* whose audio was downloaded, one that was transcribed.
EpisodeDoc(status, au, tu) ==
    [status |-> status, has_transcript |-> (status = STATUS_TRANSCRIBED),
     has_summary |-> FALSE, audio_url |-> au, transcript_url |-> tu]

NoCall == [fn |-> "none"]

\* No engine call is under way and db.summaries holds nothing of it.
SummarizerIdle ==
    /\ epc = "idle"
    /\ ecall = NoCall
    /\ messages = << >>
    /\ attempt = 0
    /\ data = << >>
    /\ eret = << >>
    /\ eexc = "None"
    /\ summary_docs = << >>
    /\ llm_calls = << >>
    /\ llm_outcomes = << >>
    /\ validated = << >>

FunctionsIdle ==
    /\ arg = NoCall
    /\ ret = << >>

\* TaskQueue.__init__ but for the pool, and the threads of the callers.
InitFields ==
    /\ tasks = << >>
    /\ db_tasks = << >>
    /\ queue = << >>
    /\ wpc = [t \in TaskIds |-> "none"]
    /\ jpc = [t \in TaskIds |-> "none"]
    /\ jexc = [t \in TaskIds |-> "None"]
    /\ params = [t \in TaskIds |-> NoParams]
    /\ hpc = [h \in Handlers |-> "idle"]
    /\ hreq = [h \in Handlers |-> NoReq]
    /\ resp = "none"
    /\ cpc = "idle"
    /\ ctask = 0
    /\ cret = "none"
    /\ spc = "idle"
    /\ invoked = [t \in TaskIds |-> 0]
    /\ outcome = [t \in TaskIds |-> "none"]
    /\ cancelled = [t \in TaskIds |-> FALSE]
    /\ pre = [t \in TaskIds |-> "none"]

\* task_queue = TaskQueue() (task_queue.py 217): the pool has the default size.
InitThreads ==
    /\ InitFields
    /\ executor = max_workers

InitEngine ==
    /\ InitThreads
    /\ SummarizerIdle
    /\ FunctionsIdle

\* The engine alone: no episode is touched; store writes may raise.
InitQueue ==
    /\ InitEngine
    /\ episodes = [e \in Episodes |-> EpisodeDoc(STATUS_NEW, TRUE, FALSE)]
    /\ transcripts = {}
    /\ summaries = {}
    /\ faults = 0

\* The engine built as TaskQueue(max_workers) for each size up to the default
\* (task_queue.py 20-21); the store is reliable.
InitPool ==
    /\ InitFields
    /\ executor \in 1..max_workers
    /\ SummarizerIdle
    /\ FunctionsIdle
    /\ episodes = [e \in Episodes |-> EpisodeDoc(STATUS_NEW, TRUE, FALSE)]
    /\ transcripts = {}
    /\ summaries = {}
    /\ faults = MaxStoreFaults

\* The orchestrators: the store is reliable (no write is left to raise).
Init ==
    /\ InitEngine
    /\ \E st \in {STATUS_NEW, STATUS_DOWNLOADED, STATUS_TRANSCRIBED},
          au \in BOOLEAN, tu \in BOOLEAN :
          /\ episodes = [e \in Episodes |-> EpisodeDoc(st, au, tu)]
          /\ transcripts = IF st = STATUS_TRANSCRIBED THEN Episodes ELSE {}
    /\ summaries = {}
    /\ faults = MaxStoreFaults

\* ------------------------------------------------------------ task engine
Running == {t \in TaskIds : wpc[t] \notin {"none", "queued", "done"}}

\* A Status Store write either succeeds or raises (at most MaxStoreFaults times).
StoreOutcomes == {ok \in BOOLEAN : ok \/ faults < MaxStoreFaults}

CountFault(ok) == faults' = IF ok THEN faults ELSE faults + 1

\* ThreadPoolExecutor._shutdown: set by executor.shutdown().
_shutdown == spc # "idle"

\* submit as it would be if it kept the record in memory only.
TaskQueue_submit_memory_only(task_id, type, ep) ==
    /\ task_id \in TaskIds
    /\ tasks' = tasks @@ (task_id :> NewTask(type, ep))
    /\ db_tasks' = db_tasks
    /\ queue' = IF _shutdown THEN queue ELSE Append(queue, task_id)
    /\ wpc' = IF _shutdown THEN wpc ELSE [wpc EXCEPT ![task_id] = "queued"]

\* TaskQueue.submit (task_queue.py 51-107): register the task in memory,
\* insert it into the store, hand wrapper to the pool.  executor.submit
\* (104) raises RuntimeError once the executor was shut down; the two
\* records are written before it.
TaskQueue_submit(task_id, type, ep) ==
    /\ task_id \in TaskIds
    /\ tasks' = tasks @@ (task_id :> NewTask(type, ep))
    /\ db_tasks' = db_tasks @@ (task_id :> NewTask(type, ep))
    /\ queue' = IF _shutdown THEN queue ELSE Append(queue, task_id)
    /\ wpc' = IF _shutdown THEN wpc ELSE [wpc EXCEPT ![task_id] = "queued"]

\* uuid4 gives an id no task has; the model numbers the tasks.
FreshId == Cardinality(DOMAIN tasks) + 1

\* TaskQueue._update_progress (task_queue.py 124-134): the value is stored as
\* passed, in memory first and then in the store.
_update_progress(t, progress, ok) ==
    /\ tasks' = [tasks EXCEPT ![t].progress = progress]
    /\ db_tasks' = IF ok THEN [db_tasks EXCEPT ![t].progress = progress] ELSE db_tasks
    /\ CountFault(ok)

\* func() raises: control reaches "except Exception as e" of wrapper (93).
Raise(t, msg) ==
    /\ jpc' = [jpc EXCEPT ![t] = "none"]
    /\ wpc' = [wpc EXCEPT ![t] = "fail_mem"]
    /\ jexc' = [jexc EXCEPT ![t] = msg]
    /\ outcome' = [outcome EXCEPT ![t] = "raised"]

\* func() returns: control reaches _update_status(..., "completed") (85).
Return(t) ==
    /\ jpc' = [jpc EXCEPT ![t] = "none"]
    /\ wpc' = [wpc EXCEPT ![t] = "complete_mem"]
    /\ outcome' = [outcome EXCEPT ![t] = "returned"]
    /\ UNCHANGED jexc

\* func() goes on to its next statement.
Goto(t, next) ==
    /\ jpc' = [jpc EXCEPT ![t] = next]
    /\ UNCHANGED <<wpc, jexc, outcome>>

FirstStep(type) ==
    CASE type = TYPE_DOWNLOAD -> "d_fetch"
      [] type = TYPE_TRANSCRIBE -> "t_fetch"
      [] type = TYPE_SUMMARIZE -> "s_gen"
      [] OTHER -> "run"

\* The dispatch as it would be if the pool started a thread for every job.
Dispatch_thread_per_job(t) ==
    /\ wpc[t] = "queued"
    /\ queue # << >>
    /\ Head(queue) = t
    /\ queue' = Tail(queue)
    /\ tasks' = [tasks EXCEPT ![t].status = STATUS_PROCESSING, ![t].started_at = TRUE]
    /\ wpc' = [wpc EXCEPT ![t] = "start_db"]
    /\ UNCHANGED <<db_tasks, jpc, jexc, faults, invoked, outcome,
                   entityVars, handlerVars, cancelVars, libVars, executor>>

\* A pool worker takes the next wrapper from the work queue and runs the
\* in-memory half of _update_status(task_id, "processing", started_at=now)
\* (task_queue.py 77, 111-114).
Dispatch(t) ==
    /\ wpc[t] = "queued"
    /\ queue # << >>
    /\ Head(queue) = t
    /\ Cardinality(Running) < executor
    /\ queue' = Tail(queue)
    /\ tasks' = [tasks EXCEPT ![t].status = STATUS_PROCESSING, ![t].started_at = TRUE]
    /\ wpc' = [wpc EXCEPT ![t] = "start_db"]
    /\ UNCHANGED <<db_tasks, jpc, jexc, faults, invoked, outcome,
                   entityVars, handlerVars, cancelVars, libVars, executor>>

\* The store half of that _update_status (117-122).  It is outside the try
\* of wrapper: if it raises, wrapper ends and func is never called.
StartDb(t) ==
    /\ wpc[t] = "start_db"
    /\ \E ok \in StoreOutcomes :
         /\ CountFault(ok)
         /\ IF ok
            THEN /\ db_tasks' = [db_tasks EXCEPT ![t].status = STATUS_PROCESSING,
                                                 ![t].started_at = TRUE]
                 /\ wpc' = [wpc EXCEPT ![t] = "job"]
                 /\ jpc' = [jpc EXCEPT ![t] = FirstStep(tasks[t].task_type)]
                 /\ invoked' = [invoked EXCEPT ![t] = @ + 1]
                 /\ UNCHANGED jexc
            ELSE /\ wpc' = [wpc EXCEPT ![t] = "done"]
                 /\ UNCHANGED <<db_tasks, jpc, jexc, invoked>>
    /\ UNCHANGED <<tasks, queue, outcome, entityVars, handlerVars, cancelVars, libVars, executor>>

\* The completion as it would be if progress=100 were not passed.
CompleteMem_keep_progress(t) ==
    /\ wpc[t] = "complete_mem"
    /\ tasks' = [tasks EXCEPT ![t].status = STATUS_COMPLETED,
                              ![t].result = "result", ![t].completed_at = TRUE]
    /\ wpc' = [wpc EXCEPT ![t] = "complete_db"]
    /\ UNCHANGED <<db_tasks, queue, jpc, jexc, faults, invoked, outcome,
                   entityVars, handlerVars, cancelVars, libVars, executor>>

\* _update_status(task_id, "completed", progress=100, result, completed_at)
\* in memory (task_queue.py 85-91, 111-114).
CompleteMem(t) ==
    /\ wpc[t] = "complete_mem"
    /\ tasks' = [tasks EXCEPT ![t].status = STATUS_COMPLETED, ![t].progress = 100,
                              ![t].result = "result", ![t].completed_at = TRUE]
    /\ wpc' = [wpc EXCEPT ![t] = "complete_db"]
    /\ UNCHANGED <<db_tasks, queue, jpc, jexc, faults, invoked, outcome,
                   entityVars, handlerVars, cancelVars, libVars, executor>>

\* ... and in the store (117-122); it is inside the try, so a store error
\* is handled by the except branch like a failure of the job.
CompleteDb(t) ==
    /\ wpc[t] = "complete_db"
    /\ \E ok \in StoreOutcomes :
         /\ CountFault(ok)
         /\ IF ok
            THEN /\ db_tasks' = [db_tasks EXCEPT ![t].status = STATUS_COMPLETED,
                                                 ![t].progress = 100,
                                                 ![t].result = "result",
                                                 ![t].completed_at = TRUE]
                 /\ wpc' = [wpc EXCEPT ![t] = "done"]
                 /\ UNCHANGED jexc
            ELSE /\ wpc' = [wpc EXCEPT ![t] = "fail_mem"]
                 /\ jexc' = [jexc EXCEPT ![t] = "store error"]
                 /\ UNCHANGED db_tasks
    /\ UNCHANGED <<tasks, queue, jpc, invoked, outcome, entityVars, handlerVars,
                   cancelVars, libVars, executor>>

\* _update_status(task_id, "failed", error_message=str(e), completed_at)
\* in memory (task_queue.py 95-100, 111-114).
FailMem(t) ==
    /\ wpc[t] = "fail_mem"
    /\ tasks' = [tasks EXCEPT ![t].status = STATUS_FAILED,
                              ![t].error_message = jexc[t],
                              ![t].completed_at = TRUE]
    /\ wpc' = [wpc EXCEPT ![t] = "fail_db"]
    /\ UNCHANGED <<db_tasks, queue, jpc, jexc, faults, invoked, outcome,
                   entityVars, handlerVars, cancelVars, libVars, executor>>

\* The except branch as it would be if it ran the wrapper again.
FailDb_requeue(t) ==
    /\ wpc[t] = "fail_db"
    /\ \E ok \in StoreOutcomes :
         /\ CountFault(ok)
         /\ db_tasks' = IF ok
                        THEN [db_tasks EXCEPT ![t].status = STATUS_FAILED,
                                              ![t].error_message = jexc[t],
                                              ![t].completed_at = TRUE]
                        ELSE db_tasks
    /\ wpc' = [wpc EXCEPT ![t] = "start_db"]
    /\ jexc' = [jexc EXCEPT ![t] = "None"]
    /\ UNCHANGED <<tasks, queue, jpc, invoked, outcome, entityVars,
                   handlerVars, cancelVars, libVars, executor>>

\* ... and in the store, followed by the re-raise into the Future (101).
FailDb(t) ==
    /\ wpc[t] = "fail_db"
    /\ \E ok \in StoreOutcomes :
         /\ CountFault(ok)
         /\ db_tasks' = IF ok
                        THEN [db_tasks EXCEPT ![t].status = STATUS_FAILED,
                                              ![t].error_message = jexc[t],
                                              ![t].completed_at = TRUE]
                        ELSE db_tasks
    /\ wpc' = [wpc EXCEPT ![t] = "done"]
    /\ jexc' = [jexc EXCEPT ![t] = "None"]
    /\ UNCHANGED <<tasks, queue, jpc, invoked, outcome, entityVars,
                   handlerVars, cancelVars, libVars, executor>>

\* ------------------------------------------------- an opaque job (func)
\* A caller hands a callable to TaskQueue.submit (as refresh_feed does,
\* api/feeds.py 239-247); no episode is involved.
SubmitJob ==
    /\ TaskQueue_submit(FreshId, TYPE_REFRESH, "None")
    /\ UNCHANGED <<jpc, jexc, faults, invoked, outcome, entityVars, handlerVars,
                   cancelVars, libVars, executor>>

\* func calls progress_callback(p) (task_queue.py 82); an error of the store
\* write in the callback propagates out of func.
JobReport(t) ==
    /\ wpc[t] = "job" /\ jpc[t] = "run"
    /\ \E p \in ProgressValues, ok \in StoreOutcomes :
         /\ _update_progress(t, p, ok)
         /\ IF ok THEN Goto(t, "run") ELSE Raise(t, "store error")
    /\ UNCHANGED <<queue, invoked, entityVars, handlerVars, cancelVars, libVars, executor>>

\* func returns its result (task_queue.py 80-84).
JobReturn(t) ==
    /\ wpc[t] = "job" /\ jpc[t] = "run"
    /\ Return(t)
    /\ UNCHANGED <<tasks, db_tasks, queue, faults, invoked, entityVars,
                   handlerVars, cancelVars, libVars, executor>>

\* func raises (task_queue.py 93).
JobRaise(t) ==
    /\ wpc[t] = "job" /\ jpc[t] = "run"
    /\ Raise(t, "job error")
    /\ UNCHANGED <<tasks, db_tasks, queue, faults, invoked, entityVars,
                   handlerVars, cancelVars, libVars, executor>>

\* ------------------------------------------------------------------ cancel
\* TaskQueue.get_status (task_queue.py 136-154): memory first, then the store.
get_status(t) ==
    IF t \in DOMAIN tasks THEN tasks[t]
    ELSE IF t \in DOMAIN db_tasks THEN db_tasks[t]
         ELSE [status |-> "None"]

\* cancel as it would be if it refused unknown tasks only.
cancel_unless_unknown(t) ==
    /\ cpc = "idle"
    /\ ctask' = t
    /\ IF get_status(t).status = "None"
       THEN cret' = "False" /\ cpc' = "c_ret"
       ELSE cret' = "none" /\ cpc' = "c_mem"
    /\ UNCHANGED <<engineVars, entityVars, handlerVars, cancelled, spc, libVars, executor>>

\* TaskQueue.cancel, lines 196-201: read the status and decide.
cancel(t) ==
    /\ cpc = "idle"
    /\ ctask' = t
    /\ IF get_status(t).status # STATUS_PENDING
       THEN cret' = "False" /\ cpc' = "c_ret"
       ELSE cret' = "none" /\ cpc' = "c_mem"
    /\ UNCHANGED <<engineVars, entityVars, handlerVars, cancelled, spc, libVars, executor>>

\* TaskQueue.cancel, lines 203-208: _update_status(task_id, "failed",
\* error_message="Cancelled by user", completed_at) in memory.
CancelMem ==
    /\ cpc = "c_mem"
    /\ tasks' = [tasks EXCEPT ![ctask].status = STATUS_FAILED,
                              ![ctask].error_message = "Cancelled by user",
                              ![ctask].completed_at = TRUE]
    /\ cpc' = "c_db"
    /\ UNCHANGED <<db_tasks, queue, wpc, jpc, jexc, faults, invoked, outcome,
                   entityVars, handlerVars, ctask, cret, cancelled, spc,
                   libVars, executor>>

\* ... in the store, then "return True" (209).
CancelDb ==
    /\ cpc = "c_db"
    /\ db_tasks' = [db_tasks EXCEPT ![ctask].status = STATUS_FAILED,
                                    ![ctask].error_message = "Cancelled by user",
                                    ![ctask].completed_at = TRUE]
    /\ cpc' = "c_ret"
    /\ cret' = "True"
    /\ cancelled' = [cancelled EXCEPT ![ctask] = TRUE]
    /\ UNCHANGED <<tasks, queue, wpc, jpc, jexc, faults, invoked, outcome,
                   entityVars, handlerVars, ctask, spc, libVars, executor>>

\* api/tasks.py cancel_task, lines 93-110: cancel() has returned; the
\* handler answers and the request thread is free again.
cancel_task ==
    /\ cpc = "c_ret"
    /\ cpc' = "idle"
    /\ ctask' = 0
    /\ cret' = "none"
    /\ UNCHANGED <<engineVars, entityVars, handlerVars, cancelled, spc, libVars, executor>>

\* ---------------------------------------------------------------- shutdown
\* TaskQueue.shutdown (task_queue.py 211-213): executor.shutdown(wait) sets
\* the flag; with wait it then joins the workers.  run.py cleanup (28-41)
\* calls it with wait=False.
shutdown(wait) ==
    /\ spc = "idle"
    /\ spc' = IF wait THEN "join" ELSE "returned"
    /\ UNCHANGED <<engineVars, entityVars, handlerVars, cpc, ctask, cret,
                   cancelled, libVars, executor>>

\* The join of executor.shutdown(wait=True): the workers leave once the
\* flag is set and the work queue is empty; shutdown returns when every
\* worker has left.
ShutdownJoin ==
    /\ spc = "join"
    /\ queue = << >>
    /\ Running = {}
    /\ spc' = "returned"
    /\ UNCHANGED <<engineVars, entityVars, handlerVars, cpc, ctask, cret,
                   cancelled, libVars, executor>>

\* ----------------------------------------------- the task engine on its own
NextQueue ==
    \/ SubmitJob
    \/ \E t \in TaskIds : Dispatch(t)
    \/ \E t \in TaskIds : StartDb(t)
    \/ \E t \in TaskIds : JobReport(t)
    \/ \E t \in TaskIds : JobReturn(t)
    \/ \E t \in TaskIds : JobRaise(t)
    \/ \E t \in TaskIds : CompleteMem(t)
    \/ \E t \in TaskIds : CompleteDb(t)
    \/ \E t \in TaskIds : FailMem(t)
    \/ \E t \in TaskIds : FailDb(t)
    \/ \E t \in TaskIds : cancel(t)
    \/ CancelMem
    \/ CancelDb
    \/ cancel_task
    \/ \E wait \in BOOLEAN : shutdown(wait)
    \/ ShutdownJoin

SpecQueue == InitQueue /\ [][NextQueue]_vars

SpecPool == InitPool /\ [][NextQueue]_vars

\* A pool worker that holds a wrapper goes on running it, and a free worker
\* takes the wrapper at the head of the work queue.
WrapperStep(t) ==
    \/ Dispatch(t)
    \/ StartDb(t)
    \/ CompleteMem(t)
    \/ CompleteDb(t)
    \/ FailMem(t)
    \/ FailDb(t)

\* The job body terminates: it returns or raises, however often it reports.
JobEnds(t) == JobReturn(t) \/ JobRaise(t)

\* The engine with workers that are scheduled fairly and jobs that terminate;
\* callers (submit, cancel, shutdown) act when they please.
SpecFair ==
    /\ InitQueue
    /\ [][NextQueue]_vars
    /\ \A t \in TaskIds : WF_vars(WrapperStep(t)) /\ WF_vars(JobEnds(t))

\* ------------------------------------------------------- request handlers
InFlightHandlers == {h \in Handlers : hpc[h] \in {"check", "submit"}}

\* The model stops accepting requests once TaskIds is used up.
HasRoom == Cardinality(DOMAIN tasks) + Cardinality(InFlightHandlers) < MaxTasks

\* return error_response(..., code, ...)
Reject(h, code) ==
    /\ resp' = code
    /\ hpc' = [hpc EXCEPT ![h] = "idle"]
    /\ hreq' = [hreq EXCEPT ![h] = NoReq]

\* The checks on the episode passed; the handler goes on to the task check.
Accept(h, req) ==
    /\ HasRoom
    /\ hreq' = [hreq EXCEPT ![h] = req]
    /\ hpc' = [hpc EXCEPT ![h] = "check"]
    /\ UNCHANGED resp

\* Locals of a handler; status is what it read when it loaded the episode.
ReqOf(stage, e, force, active) ==
    [stage |-> stage, ep |-> e, force |-> force, active |-> active,
     task_id |-> 0, status |-> episodes[e].status, by |-> "none"]

\* api/episodes.py download_episode, lines 226-253: load + guard.
download_episode(h, e) ==
    /\ hpc[h] = "idle"
    /\ LET episode_status == episodes[e].status IN
         IF ~can_download(episode_status)
         THEN IF episode_status \in {STATUS_DOWNLOADED, STATUS_TRANSCRIBED,
                                     STATUS_TRANSCRIBING, STATUS_SUMMARIZED,
                                     STATUS_SUMMARIZING}
              THEN Reject(h, "ALREADY_DOWNLOADED")
              ELSE IF episode_status = STATUS_DOWNLOADING
                   THEN Reject(h, "ALREADY_DOWNLOADING")
                   ELSE Reject(h, "INVALID_STATE")
         ELSE Accept(h, ReqOf(TYPE_DOWNLOAD, e, FALSE, FALSE))
    /\ UNCHANGED <<engineVars, entityVars, cancelVars, libVars, executor, params, pre>>

\* api/transcripts.py create_transcript, lines 57-83: load + status checks.
create_transcript(h, e) ==
    /\ hpc[h] = "idle"
    /\ LET episode_status == episodes[e].status IN
         IF episode_status = STATUS_TRANSCRIBING
         THEN Reject(h, "ALREADY_TRANSCRIBING")
         ELSE IF episode_status \in {STATUS_TRANSCRIBED, STATUS_SUMMARIZING,
                                     STATUS_SUMMARIZED}
              THEN Reject(h, "ALREADY_TRANSCRIBED")
              ELSE IF ~episodes[e].audio_url
                   THEN Reject(h, "NO_AUDIO_URL")
                   ELSE Accept(h, ReqOf(TYPE_TRANSCRIBE, e, FALSE, FALSE))
    /\ UNCHANGED <<engineVars, entityVars, cancelVars, libVars, executor, params, pre>>

\* identifier_field of create_summary (summaries.py 112-125): the field an
\* existing summary is looked up by.
identifier_field(api) == IF api = "template" THEN "template_name" ELSE "summary_type"

\* api/summaries.py create_summary, lines 96-147: load, transcript check,
\* existing-summary check.  api: the request names a template ("template") or
\* the legacy summary_type "general" ("legacy"); active: the template name it
\* resolves to is an active row of db.prompt_templates.
create_summary(h, e, force, api, active) ==
    /\ hpc[h] = "idle"
    /\ IF e \notin transcripts
       THEN Reject(h, "TRANSCRIPT_NOT_FOUND")
       ELSE IF ~force /\ <<e, identifier_field(api)>> \in summaries
            THEN Reject(h, "SUMMARY_EXISTS")
            ELSE Accept(h, ReqOf(TYPE_SUMMARIZE, e, force, active))
    /\ UNCHANGED <<engineVars, entityVars, cancelVars, libVars, executor, params, pre>>

\* The check as it would be if it looked for pending tasks only.
existing_task_pending_only(ep, type) ==
    \E t \in DOMAIN db_tasks :
        /\ db_tasks[t].episode_id = ep
        /\ db_tasks[t].task_type = type
        /\ db_tasks[t].status = STATUS_PENDING

\* The check as it would be if it looked for processing tasks only.
existing_task_processing_only(ep, type) ==
    \E t \in DOMAIN db_tasks :
        /\ db_tasks[t].episode_id = ep
        /\ db_tasks[t].task_type = type
        /\ db_tasks[t].status = STATUS_PROCESSING

\* db.tasks.find_one({episode_id, task_type, status in [pending, processing]})
\* (episodes.py 256-260, transcripts.py 86-90, summaries.py 150-154).
existing_task(ep, type) ==
    \E t \in DOMAIN db_tasks :
        /\ db_tasks[t].episode_id = ep
        /\ db_tasks[t].task_type = type
        /\ db_tasks[t].status \in {STATUS_PENDING, STATUS_PROCESSING}

\* The task check as it would be if it marked the episode before refusing.
ExistingTaskCheck_marking(h) ==
    /\ hpc[h] = "check"
    /\ IF existing_task(hreq[h].ep, hreq[h].stage)
       THEN /\ Reject(h, "TASK_IN_PROGRESS")
            /\ episodes' = [episodes EXCEPT
                               ![hreq[h].ep].status = InProgressStatus(hreq[h].stage)]
       ELSE /\ hpc' = [hpc EXCEPT ![h] = "submit"]
            /\ UNCHANGED <<hreq, resp, episodes>>
    /\ UNCHANGED <<engineVars, transcripts, summaries, cancelVars, libVars, executor, params, pre>>

\* The existing-task check of the three handlers (episodes.py 255-266,
\* transcripts.py 85-96, summaries.py 149-160).
ExistingTaskCheck(h) ==
    /\ hpc[h] = "check"
    /\ IF existing_task(hreq[h].ep, hreq[h].stage)
       THEN Reject(h, "TASK_IN_PROGRESS")
       ELSE /\ hpc' = [hpc EXCEPT ![h] = "submit"]
            /\ UNCHANGED <<hreq, resp>>
    /\ UNCHANGED <<engineVars, entityVars, cancelVars, libVars, executor, params, pre>>

\* task_queue.submit(task_type, func, episode_id) called by the handler
\* (episodes.py 269-276, transcripts.py 99-106, summaries.py 163-178); if it
\* raises, the request ends with the 500 handler (app/__init__.py 112-114).
submit(h) ==
    /\ hpc[h] = "submit"
    /\ TaskQueue_submit(FreshId, hreq[h].stage, hreq[h].ep)
    /\ params' = [params EXCEPT ![FreshId] = [force |-> hreq[h].force,
                                              active |-> hreq[h].active]]
    /\ pre' = [pre EXCEPT ![FreshId] = hreq[h].status]
    /\ IF _shutdown
       THEN Reject(h, "INTERNAL_ERROR")
       ELSE /\ hreq' = [hreq EXCEPT ![h].task_id = FreshId]
            /\ hpc' = [hpc EXCEPT ![h] = "mark"]
            /\ UNCHANGED resp
    /\ UNCHANGED <<jpc, jexc, faults, invoked, outcome, entityVars, cancelVars, libVars, executor>>

\* The handler's write of the in-progress status after submit, and its
\* response (episodes.py 278-287, transcripts.py 108-117, summaries.py 180-201).
MarkInProgress(h) ==
    /\ hpc[h] = "mark"
    /\ episodes' = [episodes EXCEPT ![hreq[h].ep].status = InProgressStatus(hreq[h].stage)]
    /\ resp' = "queued"
    /\ hpc' = [hpc EXCEPT ![h] = "idle"]
    /\ hreq' = [hreq EXCEPT ![h] = NoReq]
    /\ UNCHANGED <<engineVars, transcripts, summaries, cancelVars, libVars, executor, params, pre>>

\* -------------------------------------------------------------- job bodies
\* The progress reports of a job body between two of its steps; the store is
\* reliable in Spec, the last value reported is the one left in the record.
Reported(t, progress) == _update_progress(t, progress, TRUE)

\* api/episodes.py _download_episode_sync, lines 296-344: load the episode,
\* report 10, fetch the audio (reports up to 90), report 95.
DownloadFetch(t) ==
    LET e == tasks[t].episode_id IN
    /\ wpc[t] = "job" /\ jpc[t] = "d_fetch"
    /\ IF ~episodes[e].audio_url
       THEN Raise(t, "No audio URL") /\ UNCHANGED <<tasks, db_tasks, faults>>
       ELSE \/ Reported(t, 10) /\ Raise(t, "download failed")
            \/ Reported(t, 95) /\ Goto(t, "d_save")
    /\ UNCHANGED <<queue, invoked, entityVars, handlerVars, cancelVars, libVars, executor>>

\* _download_episode_sync, lines 346-360: set the episode to downloaded,
\* report 100, return.
DownloadSave(t) ==
    LET e == tasks[t].episode_id IN
    /\ wpc[t] = "job" /\ jpc[t] = "d_save"
    /\ episodes' = [episodes EXCEPT ![e].status = STATUS_DOWNLOADED]
    /\ Reported(t, 100)
    /\ Return(t)
    /\ UNCHANGED <<queue, invoked, transcripts, summaries, handlerVars, cancelVars, libVars, executor>>

\* api/transcripts.py _transcribe_sync, lines 196-215: report 10, then, when
\* the episode has a transcript URL, _download_official_transcript (120-153),
\* which reports 20 and 60 around the fetch and returns the text or None.
\* With no text the job falls through to the audio path.
TranscribeFetch(t) ==
    LET e == tasks[t].episode_id IN
    /\ wpc[t] = "job" /\ jpc[t] = "t_fetch"
    /\ IF episodes[e].transcript_url
       THEN /\ Reported(t, 60)
            /\ \/ Goto(t, "t_save")
               \/ Goto(t, "t_audio")
       ELSE Reported(t, 10) /\ Goto(t, "t_audio")
    /\ UNCHANGED <<queue, invoked, entityVars, handlerVars, cancelVars, libVars, executor>>

\* _transcribe_sync, lines 217-226, and _transcribe_with_assemblyai
\* (234-268) up to the point where the transcript text is at hand: raise
\* without an audio URL, else report 20, then 30 and 80 around the request.
TranscribeAudio(t) ==
    LET e == tasks[t].episode_id IN
    /\ wpc[t] = "job" /\ jpc[t] = "t_audio"
    /\ IF ~episodes[e].audio_url
       THEN /\ Raise(t, "No audio URL available")
            /\ UNCHANGED <<tasks, db_tasks, faults>>
       ELSE \/ Reported(t, 20) /\ Raise(t, "ASSEMBLYAI_API_KEY not configured")
            \/ Reported(t, 30) /\ Raise(t, "AssemblyAI error")
            \/ Reported(t, 80) /\ Goto(t, "t_save")
    /\ UNCHANGED <<queue, invoked, entityVars, handlerVars, cancelVars, libVars, executor>>

\* _save_transcript (transcripts.py 156-188) or the save of
\* _transcribe_with_assemblyai (318-337), then report 100 and return
\* (213-215, 228-231).
TranscribeSave(t) ==
    LET e == tasks[t].episode_id IN
    /\ wpc[t] = "job" /\ jpc[t] = "t_save"
    /\ transcripts' = transcripts \cup {e}
    /\ episodes' = [episodes EXCEPT ![e].status = STATUS_TRANSCRIBED,
                                    ![e].has_transcript = TRUE]
    /\ Reported(t, 100)
    /\ Return(t)
    /\ UNCHANGED <<queue, invoked, summaries, handlerVars, cancelVars, libVars, executor>>

\* The except branch of _summarize_sync (summaries.py 263-269): set the
\* episode to transcribed and re-raise.
SummarizeFailed(t, msg) ==
    /\ episodes' = [episodes EXCEPT ![tasks[t].episode_id].status = STATUS_TRANSCRIBED]
    /\ Raise(t, msg)
    /\ UNCHANGED <<transcripts, summaries>>

\* api/summaries.py _summarize_sync, lines 214-229, into
\* SummaryService.generate_summary (summary_service.py 76-106): an active
\* template goes to _generate_with_engine (108-125), which passes the keyword
\* user_focus that summarize_episode (engine.py 120-127) does not accept;
\* otherwise _generate_legacy (127-174) runs with summary_type "general" up
\* to its LLM call.
SummarizeGenerate(t) ==
    LET e == tasks[t].episode_id IN
    /\ wpc[t] = "job" /\ jpc[t] = "s_gen"
    /\ IF params[t].active
       THEN Reported(t, 10) /\ SummarizeFailed(t, "TypeError: user_focus")
       ELSE IF ~params[t].force /\ <<e, "summary_type">> \in summaries
            THEN Reported(t, 100) /\ Return(t) /\ UNCHANGED entityVars
            ELSE IF e \notin transcripts
                 THEN Reported(t, 10) /\ SummarizeFailed(t, "Transcript not found")
                 ELSE Reported(t, 10) /\ Goto(t, "s_llm") /\ UNCHANGED entityVars
    /\ UNCHANGED <<queue, invoked, handlerVars, cancelVars, libVars, executor>>

\* _generate_legacy from the answer of the LLM on (summary_service.py
\* 171-207): upsert the summary, set the episode to summarized; then the rest
\* of _summarize_sync (summaries.py 231-261): report 60, translate, report
\* 100, return.
SummarizeSave(t) ==
    LET e == tasks[t].episode_id IN
    /\ wpc[t] = "job" /\ jpc[t] = "s_llm"
    /\ \/ Reported(t, 10) /\ SummarizeFailed(t, "LLM call failed")
       \/ /\ summaries' = summaries \cup {<<e, "summary_type">>}
          /\ episodes' = [episodes EXCEPT ![e].has_summary = TRUE,
                                          ![e].status = STATUS_SUMMARIZED]
          /\ Reported(t, 100)
          /\ Return(t)
          /\ UNCHANGED transcripts
    /\ UNCHANGED <<queue, invoked, handlerVars, cancelVars, libVars, executor>>

\* ------------------------------------------------- deletion of artifacts
\* api/transcripts.py delete_transcript, lines 357-359: load the episode.
delete_transcript(h, e) ==
    /\ hpc[h] = "idle"
    /\ hreq' = [hreq EXCEPT ![h] = ReqOf("delete_transcript", e, FALSE, FALSE)]
    /\ hpc' = [hpc EXCEPT ![h] = "delete"]
    /\ UNCHANGED <<engineVars, entityVars, cancelVars, libVars, executor, params, pre, resp>>

\* api/summaries.py delete_summary, lines 383-388: load the episode and read
\* the query parameters.  by: the field the request selects the summary
\* with ("template_name", "summary_type") or "all".
delete_summary(h, e, by) ==
    /\ hpc[h] = "idle"
    /\ hreq' = [hreq EXCEPT ![h] = [ReqOf("delete_summary", e, FALSE, FALSE)
                                       EXCEPT !.by = by]]
    /\ hpc' = [hpc EXCEPT ![h] = "delete"]
    /\ UNCHANGED <<engineVars, entityVars, cancelVars, libVars, executor, params, pre, resp>>

\* Summaries of an episode a delete_summary request selects (summaries.py
\* 390-401): delete_one by the field named, delete_many without a field.
Selected(e, by) ==
    {d \in summaries : d[1] = e /\ (by = "all" \/ d[2] = by)}

\* delete_transcript, lines 361-372: delete_one, then the status write that
\* depends on the status read at load.
DeleteTranscript(h) ==
    LET e == hreq[h].ep IN
    /\ hpc[h] = "delete" /\ hreq[h].stage = "delete_transcript"
    /\ IF e \notin transcripts
       THEN Reject(h, "TRANSCRIPT_NOT_FOUND") /\ UNCHANGED entityVars
       ELSE /\ transcripts' = transcripts \ {e}
            /\ episodes' = IF hreq[h].status = STATUS_TRANSCRIBED
                           THEN [episodes EXCEPT ![e].status = STATUS_DOWNLOADED]
                           ELSE episodes
            /\ Reject(h, "deleted")
            /\ UNCHANGED summaries
    /\ UNCHANGED <<engineVars, cancelVars, libVars, executor, params, pre>>

\* delete_summary, lines 390-418: delete, count what remains, then the status
\* write that depends on the status read at load.
DeleteSummary(h) ==
    LET e == hreq[h].ep
        remaining == {d \in summaries \ Selected(e, hreq[h].by) : d[1] = e} IN
    /\ hpc[h] = "delete" /\ hreq[h].stage = "delete_summary"
    /\ IF Selected(e, hreq[h].by) = {}
       THEN Reject(h, "SUMMARY_NOT_FOUND") /\ UNCHANGED entityVars
       ELSE /\ summaries' = summaries \ Selected(e, hreq[h].by)
            /\ episodes' = IF remaining = {} /\ hreq[h].status = STATUS_SUMMARIZED
                           THEN [episodes EXCEPT ![e].status = STATUS_TRANSCRIBED,
                                                 ![e].has_summary = FALSE]
                           ELSE episodes
            /\ Reject(h, "deleted")
            /\ UNCHANGED transcripts
    /\ UNCHANGED <<engineVars, cancelVars, libVars, executor, params, pre>>

\* ------------------- the stage orchestrators on the engine, reliable store
Next ==
    \/ \E h \in Handlers, e \in Episodes : download_episode(h, e)
    \/ \E h \in Handlers, e \in Episodes : create_transcript(h, e)
    \/ \E h \in Handlers, e \in Episodes, force \in BOOLEAN,
          api \in {"template", "legacy"}, active \in BOOLEAN :
          create_summary(h, e, force, api, active)
    \/ \E h \in Handlers : ExistingTaskCheck(h)
    \/ \E h \in Handlers : submit(h)
    \/ \E h \in Handlers : MarkInProgress(h)
    \/ \E t \in TaskIds : Dispatch(t)
    \/ \E t \in TaskIds : StartDb(t)
    \/ \E t \in TaskIds : DownloadFetch(t)
    \/ \E t \in TaskIds : DownloadSave(t)
    \/ \E t \in TaskIds : TranscribeFetch(t)
    \/ \E t \in TaskIds : TranscribeAudio(t)
    \/ \E t \in TaskIds : TranscribeSave(t)
    \/ \E t \in TaskIds : SummarizeGenerate(t)
    \/ \E t \in TaskIds : SummarizeSave(t)
    \/ \E t \in TaskIds : CompleteMem(t)
    \/ \E t \in TaskIds : CompleteDb(t)
    \/ \E t \in TaskIds : FailMem(t)
    \/ \E t \in TaskIds : FailDb(t)

Spec == Init /\ [][Next]_vars

\* ------------- the same with the deletion requests, from any stored status
\* An episode as the stages leave it, or one marked error (Episode.STATUS_ERROR).
InitDelete ==
    /\ InitEngine
    /\ \E st \in {STATUS_DOWNLOADED, STATUS_TRANSCRIBED, STATUS_SUMMARIZED, STATUS_ERROR},
          tr \in BOOLEAN :
          /\ episodes = [e \in Episodes |->
                   [EpisodeDoc(st, TRUE, FALSE) EXCEPT
                       !.has_transcript = (st \in {STATUS_TRANSCRIBED, STATUS_SUMMARIZED}
                                              \/ (st = STATUS_ERROR /\ tr)),
                       !.has_summary = (st = STATUS_SUMMARIZED)]]
          /\ transcripts = IF st \in {STATUS_TRANSCRIBED, STATUS_SUMMARIZED}
                              \/ (st = STATUS_ERROR /\ tr)
                           THEN Episodes ELSE {}
          /\ summaries = IF st = STATUS_SUMMARIZED
                         THEN {<<e, "summary_type">> : e \in Episodes} ELSE {}
    /\ faults = MaxStoreFaults

\* One thread serves the stage requests and one the deletion requests.
StageHandler == "h1"
DeleteHandler == "h2"

NextDelete ==
    \/ \E e \in Episodes : create_transcript(StageHandler, e)
    \/ \E e \in Episodes, force \in BOOLEAN :
          create_summary(StageHandler, e, force, "legacy", FALSE)
    \/ ExistingTaskCheck(StageHandler)
    \/ submit(StageHandler)
    \/ MarkInProgress(StageHandler)
    \/ \E t \in TaskIds : Dispatch(t)
    \/ \E t \in TaskIds : StartDb(t)
    \/ \E t \in TaskIds : TranscribeFetch(t)
    \/ \E t \in TaskIds : TranscribeAudio(t)
    \/ \E t \in TaskIds : TranscribeSave(t)
    \/ \E t \in TaskIds : SummarizeGenerate(t)
    \/ \E t \in TaskIds : SummarizeSave(t)
    \/ \E t \in TaskIds : CompleteMem(t)
    \/ \E t \in TaskIds : CompleteDb(t)
    \/ \E t \in TaskIds : FailMem(t)
    \/ \E t \in TaskIds : FailDb(t)
    \/ \E e \in Episodes : delete_transcript(DeleteHandler, e)
    \/ \E e \in Episodes, by \in {"template_name", "summary_type", "all"} :
          delete_summary(DeleteHandler, e, by)
    \/ DeleteTranscript(DeleteHandler)
    \/ DeleteSummary(DeleteHandler)

SpecDelete == InitDelete /\ [][NextDelete]_vars

\* ==================================================== summarization library
\* Bounds of the helper inputs.
MaxBudget == 4
MaxTextLen == 5

\* Characters of a text; Marker stands for the inserted
\* "\n\n[... content truncated, total N characters ...]\n\n".
Chars == {"a", "b"}
Marker == "[...]"

RECURSIVE Texts(_)
Texts(n) == IF n = 0 THEN {<< >>}
            ELSE Texts(n - 1) \cup {<<c>> \o t : c \in Chars, t \in {u \in Texts(n - 1) : Len(u) = n - 1}}

\* Python slices text[:n] and text[-n:] (n >= 0); text[-0:] is text[0:].
SliceHead(text, n) == SubSeq(text, 1, IF n < Len(text) THEN n ELSE Len(text))
SliceTail(text, n) ==
    IF n = 0 \/ n >= Len(text) THEN text
    ELSE SubSeq(text, Len(text) - n + 1, Len(text))

\* PromptBuilder._truncate_text (prompt_builder.py 176-188); int(x * 0.6) of
\* a positive int x is floor(6x / 10), int(x * 0.3) is floor(3x / 10).
_truncate_text(text, max_chars) ==
    IF Len(text) <= max_chars THEN text
    ELSE LET head_size == (max_chars * 6) \div 10
             tail_size == (max_chars * 3) \div 10
             head == SliceHead(text, head_size)
             tail == SliceTail(text, tail_size)
         IN head \o <<Marker>> \o tail

\* Values of a field map and their JSON shape.
Values == {"text", "list", "dict"}
Defaults == {"", "[]", "Summary not available"}
TypeOf(v) == IF v \in {"text", "", "Summary not available"} THEN "string"
             ELSE IF v \in {"list", "[]"} THEN "array" ELSE "object"

Keys == {"tldr", "tags", "title", "key_points"}
FieldMaps == UNION {[K -> {"text", "list"}] : K \in SUBSET Keys}

\* db.prompt_templates: name -> document.  Two active templates with a
\* block catalogue (block ids are unique within a template) and one that
\* was deactivated.
Block(id, key, type, dflt, order) ==
    [id |-> id, key |-> key, type |-> type, enabled_by_default |-> dflt,
     order |-> order]

\* The keyword arguments build gives user_prompt_template.format
\* (prompt_builder.py 73-82).
BuildKeywords == {"title", "guest", "length_instruction", "language_instruction",
                  "optional_blocks_instructions", "output_format_instruction",
                  "dynamic_schema", "transcript"}

\* db.prompt_templates: name -> document.  "investment" is a shipped
\* template: its user prompt is COMMON_USER_PROMPT (defaults/templates.py
\* 21-40), which has the placeholder {user_focus_instruction}.  "learning" and
\* "brief" are user templates with a user prompt of their own; "retired" was
\* deactivated.  Block ids are unique within a template; orders need not be.
prompt_templates ==
    [n \in {"investment", "learning", "brief", "retired"} |->
        IF n = "investment"
        THEN [is_active |-> TRUE, required_fields |-> <<"tldr", "tags">>,
              placeholders |-> BuildKeywords \cup {"user_focus_instruction"},
              optional_blocks |-> <<Block("key_points", "key_points", "array", TRUE, 1)>>]
        ELSE IF n = "learning"
        THEN [is_active |-> TRUE, required_fields |-> <<"tldr", "tags">>,
              placeholders |-> BuildKeywords,
              optional_blocks |-> <<Block("key_points", "key_points", "array", TRUE, 2),
                                    Block("quotes", "quotes", "string", FALSE, 1)>>]
        ELSE IF n = "brief"
             THEN [is_active |-> TRUE, required_fields |-> <<"tldr", "title">>,
                   placeholders |-> BuildKeywords \ {"guest"},
                   optional_blocks |-> <<Block("outline", "key_points", "object", FALSE, 1),
                                         Block("risks", "risks", "string", TRUE, 1)>>]
             ELSE [is_active |-> FALSE, required_fields |-> <<"tldr", "tags">>,
                   placeholders |-> BuildKeywords,
                   optional_blocks |-> << >>]]

TemplateNames == {"investment", "learning", "brief", "retired", "unknown"}
ActiveTemplates == {n \in DOMAIN prompt_templates : prompt_templates[n].is_active}

\* The enabled_blocks argument: None, or a list of ids (only membership in
\* the list is ever used).
NoBlocks == [given |-> FALSE, ids |-> {}]
BlockLists == {NoBlocks} \cup
              {[given |-> TRUE, ids |-> S] : S \in {{}, {"key_points"}, {"outline", "nosuch"},
                                                    {"quotes", "key_points", "nosuch"},
                                                    {"risks", "outline"}}}

\* _resolve_enabled_blocks as it would be if it tested the list for truth.
resolve_enabled_blocks_if_truthy(all_blocks, enabled_blocks) ==
    IF enabled_blocks.given /\ enabled_blocks.ids # {}
    THEN SelectSeq(all_blocks, LAMBDA b : b.id \in enabled_blocks.ids)
    ELSE SelectSeq(all_blocks, LAMBDA b : b.enabled_by_default)

\* PromptBuilder._resolve_enabled_blocks (prompt_builder.py 89-100), and the
\* same two comprehensions in SchemaValidator.validate (73-76).
_resolve_enabled_blocks(all_blocks, enabled_blocks) ==
    IF enabled_blocks.given
    THEN SelectSeq(all_blocks, LAMBDA b : b.id \in enabled_blocks.ids)
    ELSE SelectSeq(all_blocks, LAMBDA b : b.enabled_by_default)

\* PromptBuilder.get_enabled_block_ids (prompt_builder.py 226-234).
get_enabled_block_ids(template, enabled_blocks) ==
    LET active == _resolve_enabled_blocks(template.optional_blocks, enabled_blocks)
    IN [i \in 1..Len(active) |-> active[i].id]

\* A stable sort of the blocks by their order.
RECURSIVE StableSort(_)
StableSort(blocks) ==
    IF blocks = << >> THEN << >>
    ELSE LET last == blocks[Len(blocks)]
             front == StableSort(SubSeq(blocks, 1, Len(blocks) - 1))
         IN SelectSeq(front, LAMBDA b : b.order <= last.order) \o <<last>>
               \o SelectSeq(front, LAMBDA b : b.order > last.order)

\* The blocks in catalogue order, as if sorted() were left out.
catalogue_order(blocks) == blocks

\* sorted(blocks, key=lambda x: x.get("order", 0)) (prompt_builder.py 108,
\* 131).
sorted_by_order(blocks) == StableSort(blocks)

\* The keys of a dict in insertion order: a key stays where it was first set.
RECURSIVE dict_keys(_)
dict_keys(ks) ==
    IF ks = << >> THEN << >>
    ELSE LET front == dict_keys(SubSeq(ks, 1, Len(ks) - 1))
         IN IF \E i \in 1..Len(front) : front[i] = ks[Len(ks)] THEN front
            ELSE Append(front, ks[Len(ks)])

\* _build_blocks_instructions (prompt_builder.py 102-114): one numbered
\* line per block (each block has a prompt_fragment), named here by its id.
_build_blocks_instructions(blocks) ==
    LET sorted == sorted_by_order(blocks)
    IN [i \in 1..Len(sorted) |-> sorted[i].id]

\* _build_dynamic_schema (prompt_builder.py 116-154): the keys of the schema
\* dict in the order json.dumps writes them.
_build_dynamic_schema(required_fields, blocks) ==
    LET sorted == sorted_by_order(blocks)
    IN dict_keys(required_fields \o [i \in 1..Len(sorted) |-> sorted[i].key])

RECURSIVE Flatten(_)
Flatten(ss) == IF ss = << >> THEN << >> ELSE Head(ss) \o Flatten(Tail(ss))

Violation(kind, name) == [kind |-> kind, name |-> name]

\* validate as it would be if it checked the blocks in every mode.
validate_blocks_always(d, template, enabled_blocks, strictness) ==
    LET required_fields == template.required_fields
        FieldErrors(field) ==
            IF field \notin DOMAIN d THEN <<Violation("Missing required field", field)>>
            ELSE << >>
        active_blocks == _resolve_enabled_blocks(template.optional_blocks, enabled_blocks)
        BlockErrors(block) ==
            IF block.key \notin DOMAIN d
            THEN <<Violation("Missing field from block", block.key)>>
            ELSE << >>
        errors == Flatten([i \in 1..Len(required_fields) |-> FieldErrors(required_fields[i])])
                  \o Flatten([i \in 1..Len(active_blocks) |-> BlockErrors(active_blocks[i])])
    IN [is_valid |-> (Len(errors) = 0), errors |-> errors]

\* SchemaValidator.validate (schema_validator.py 39-102).
validate(d, template, enabled_blocks, strictness) ==
    LET required_fields == template.required_fields
        FieldErrors(field) ==
            IF field \notin DOMAIN d THEN <<Violation("Missing required field", field)>>
            ELSE IF strictness = "strict"
                 THEN IF field = "tldr" /\ TypeOf(d[field]) # "string"
                      THEN <<Violation("must be string", field)>>
                      ELSE IF field = "tags" /\ TypeOf(d[field]) # "array"
                           THEN <<Violation("must be array", field)>>
                           ELSE << >>
                 ELSE << >>
        active_blocks == _resolve_enabled_blocks(template.optional_blocks, enabled_blocks)
        BlockErrors(block) ==
            IF block.key \notin DOMAIN d
            THEN IF strictness = "strict"
                 THEN <<Violation("Missing field from block", block.key)>>
                 ELSE << >>
            ELSE IF strictness = "strict" /\ TypeOf(d[block.key]) # block.type
                 THEN <<Violation("must be " \o block.type, block.key)>>
                 ELSE << >>
        errors == Flatten([i \in 1..Len(required_fields) |-> FieldErrors(required_fields[i])])
                  \o Flatten([i \in 1..Len(active_blocks) |-> BlockErrors(active_blocks[i])])
    IN [is_valid |-> (Len(errors) = 0), errors |-> errors]

Range(s) == {s[i] : i \in 1..Len(s)}

\* The default ensure_required_fields gives a field (138-143).
DefaultOf(field) == IF field = "tldr" THEN "Summary not available"
                    ELSE IF field = "tags" THEN "[]" ELSE ""

\* ensure_required_fields as it would be if it also filled the block keys.
ensure_every_field(d, template) ==
    LET blocks == template.optional_blocks
        block_keys == {blocks[i].key : i \in 1..Len(blocks)}
    IN [k \in DOMAIN d \cup Range(template.required_fields) \cup block_keys |->
            IF k \in DOMAIN d THEN d[k] ELSE DefaultOf(k)]

\* SchemaValidator.ensure_required_fields (schema_validator.py 125-146):
\* a copy of the map with the missing required fields filled in.
ensure_required_fields(d, template) ==
    [k \in DOMAIN d \cup Range(template.required_fields) |->
        IF k \in DOMAIN d THEN d[k] ELSE DefaultOf(k)]

\* The parameters of a template: length as in COMMON_PARAMETERS
\* (defaults/templates.py 43-76), language as a user template may define it,
\* with a default that is not in its option table; "tone" is not defined.
parameters ==
    [p \in {"length", "language"} |->
        IF p = "length"
        THEN [default |-> "medium",
              prompt_mapping |-> [v \in {"short", "medium", "long"} |-> "instruction " \o v]]
        ELSE [default |-> "fr",
              prompt_mapping |-> [v \in {"en", "zh"} |-> "instruction " \o v]]]

\* The params of the caller: a parameter is left out, or given an option,
\* a text that is no option, or null ("").
UserParams ==
    UNION {[P -> {"short", "zh", "write a poem", ""}] : P \in SUBSET {"length", "language", "tone"}}

\* _build_param_instruction as it would be if it passed an unmapped value on.
build_param_instruction_or_value(user_params, param_name) ==
    IF param_name \notin DOMAIN parameters THEN ""
    ELSE LET param_def == parameters[param_name]
             value == IF param_name \in DOMAIN user_params THEN user_params[param_name]
                      ELSE param_def.default
         IN IF value = "" THEN ""
            ELSE IF value \in DOMAIN param_def.prompt_mapping
                 THEN param_def.prompt_mapping[value] ELSE value

\* PromptBuilder._build_param_instruction (prompt_builder.py 156-174).
_build_param_instruction(user_params, param_name) ==
    IF param_name \notin DOMAIN parameters THEN ""
    ELSE LET param_def == parameters[param_name]
             value == IF param_name \in DOMAIN user_params THEN user_params[param_name]
                      ELSE param_def.default
         IN IF value = "" THEN ""
            ELSE IF value \in DOMAIN param_def.prompt_mapping
                 THEN param_def.prompt_mapping[value] ELSE ""

\* ------------------------------------------------- the helpers on their own
ParamArgs ==
    {[fn |-> "_build_param_instruction", user_params |-> u, param_name |-> p] :
        u \in UserParams, p \in {"length", "language", "tone"}}
TruncateArgs ==
    {[fn |-> "_truncate_text", text |-> t, max_chars |-> b] :
        t \in Texts(MaxTextLen), b \in 1..MaxBudget}
ValidateArgs ==
    {[fn |-> "validate", data |-> d, template |-> n, enabled_blocks |-> bl,
      strictness |-> s] :
        d \in FieldMaps, n \in ActiveTemplates, bl \in BlockLists,
        s \in {"strict", "normal", "relaxed"}}
EnsureArgs ==
    {[fn |-> "ensure_required_fields", data |-> d, template |-> n] :
        d \in FieldMaps, n \in ActiveTemplates}

InitHelpers ==
    /\ InitThreads
    /\ SummarizerIdle
    /\ episodes = [e \in Episodes |-> EpisodeDoc(STATUS_NEW, TRUE, FALSE)]
    /\ transcripts = {}
    /\ summaries = {}
    /\ faults = 0
    /\ arg \in TruncateArgs \cup ValidateArgs \cup EnsureArgs \cup ParamArgs
    /\ ret = << >>

HelperFrame == UNCHANGED <<engineVars, entityVars, handlerVars, cancelVars,
                           summarizeVars, arg, executor>>

\* A call of _truncate_text returns.
TruncateText ==
    /\ arg.fn = "_truncate_text"
    /\ ret = << >>
    /\ ret' = <<_truncate_text(arg.text, arg.max_chars)>>
    /\ HelperFrame

\* A call of validate returns (is_valid, errors); data is only read.
Validate ==
    /\ arg.fn = "validate"
    /\ ret = << >>
    /\ ret' = <<validate(arg.data, prompt_templates[arg.template],
                         arg.enabled_blocks, arg.strictness)>>
    /\ HelperFrame

\* A call of ensure_required_fields returns the copy it filled.
EnsureRequiredFields ==
    /\ arg.fn = "ensure_required_fields"
    /\ ret = << >>
    /\ ret' = <<ensure_required_fields(arg.data, prompt_templates[arg.template])>>
    /\ HelperFrame

\* A call of _build_param_instruction returns.
BuildParamInstruction ==
    /\ arg.fn = "_build_param_instruction"
    /\ ret = << >>
    /\ ret' = <<_build_param_instruction(arg.user_params, arg.param_name)>>
    /\ HelperFrame

NextHelpers ==
    \/ BuildParamInstruction
    \/ TruncateText
    \/ Validate
    \/ EnsureRequiredFields

SpecHelpers == InitHelpers /\ [][NextHelpers]_vars

\* ===================================================== summarization engine
MAX_RETRIES == 2

\* Field maps the model client answers with (always a JSON object): every
\* subset of the keys, each value of the shape its name suggests.
LLMData == {d \in FieldMaps :
               \A k \in DOMAIN d : d[k] = IF k \in {"tags", "key_points"} THEN "list" ELSE "text"}

\* The locals of the running summarize call.
the_template == prompt_templates[ecall.template_name]
actual_blocks == get_enabled_block_ids(the_template, ecall.enabled_blocks)

EngineFrame == UNCHANGED <<engineVars, transcripts, summaries, handlerVars,
                           cancelVars, functionVars, executor>>

EngineRaise(e) ==
    /\ epc' = "raised"
    /\ eexc' = e

\* SummarizationEngine.summarize is called (engine.py 46-55).
summarize(template_name, enabled_blocks, retry_on_failure) ==
    /\ epc = "idle"
    /\ ecall' = [fn |-> "summarize", template_name |-> template_name,
                 enabled_blocks |-> enabled_blocks,
                 retry_on_failure |-> retry_on_failure,
                 episode_id |-> "none", force |-> FALSE]
    /\ epc' = "load"
    /\ UNCHANGED <<messages, attempt, data, eret, eexc, summary_docs, llm_calls,
                   llm_outcomes, validated, episodes>>
    /\ EngineFrame

Stored(e, template_name) ==
    {i \in 1..Len(summary_docs) : /\ summary_docs[i].episode_id = e
                                  /\ summary_docs[i].template_name = template_name}

\* summarize_episode, lines 146-180: the existing summary is returned unless
\* force; without episode or transcript it raises; else it calls summarize
\* (retry_on_failure keeps its default True).
summarize_episode(e, template_name, enabled_blocks, force) ==
    /\ epc = "idle"
    /\ ecall' = [fn |-> "summarize_episode", template_name |-> template_name,
                 enabled_blocks |-> enabled_blocks, retry_on_failure |-> TRUE,
                 episode_id |-> e, force |-> force]
    /\ IF ~force /\ Stored(e, template_name) # {}
       THEN /\ eret' = <<summary_docs[CHOOSE i \in Stored(e, template_name) :
                                         \A j \in Stored(e, template_name) : i <= j]>>
            /\ epc' = "returned"
            /\ UNCHANGED eexc
       ELSE IF e \notin DOMAIN episodes
            THEN EngineRaise("Episode not found") /\ UNCHANGED eret
            ELSE IF e \notin transcripts
                 THEN EngineRaise("Transcript not found") /\ UNCHANGED eret
                 ELSE epc' = "load" /\ UNCHANGED <<eret, eexc>>
    /\ UNCHANGED <<messages, attempt, data, summary_docs, llm_calls, llm_outcomes,
                   validated, episodes>>
    /\ EngineFrame

\* The template load as it would be if it took deactivated templates.
LoadTemplate_any_state ==
    /\ epc = "load"
    /\ IF ecall.template_name \notin DOMAIN prompt_templates
       THEN EngineRaise("Template not found")
       ELSE epc' = "build" /\ UNCHANGED eexc
    /\ UNCHANGED <<ecall, messages, attempt, data, eret, summary_docs, llm_calls,
                   llm_outcomes, validated, episodes>>
    /\ EngineFrame

\* summarize, lines 80-83 with _load_template (220-225).
LoadTemplate ==
    /\ epc = "load"
    /\ IF ecall.template_name \notin ActiveTemplates
       THEN EngineRaise("Template not found")
       ELSE epc' = "build" /\ UNCHANGED eexc
    /\ UNCHANGED <<ecall, messages, attempt, data, eret, summary_docs, llm_calls,
                   llm_outcomes, validated, episodes>>
    /\ EngineFrame

\* summarize, lines 87-112: resolve the block ids, build the messages (the
\* builder resolves the blocks again, prompt_builder.py 54) and enter
\* _call_with_retry.  str.format raises KeyError for a placeholder of the
\* user prompt that build passes no keyword for (prompt_builder.py 70-82).
BuildMessages ==
    /\ epc = "build"
    /\ IF ~(the_template.placeholders \subseteq BuildKeywords)
       THEN /\ EngineRaise("KeyError")
            /\ UNCHANGED <<messages, attempt>>
       ELSE /\ LET active_blocks == _resolve_enabled_blocks(the_template.optional_blocks,
                                                            ecall.enabled_blocks)
               IN messages' =
                     <<[blocks |-> [i \in 1..Len(active_blocks) |-> active_blocks[i].id],
                        instructions |-> _build_blocks_instructions(active_blocks),
                        schema |-> _build_dynamic_schema(the_template.required_fields,
                                                         active_blocks),
                        hints |-> << >>]>>
            /\ attempt' = 0
            /\ epc' = "call"
            /\ UNCHANGED eexc
    /\ UNCHANGED <<ecall, data, eret, summary_docs, llm_calls, llm_outcomes,
                   validated, episodes>>
    /\ EngineFrame

\* _call_with_retry, lines 241-247: chat_json answers with a field map.
CallLLM(responses) ==
    /\ epc = "call"
    /\ llm_calls' = Append(llm_calls, messages[1])
    /\ \E d \in responses : data' = <<d>>
    /\ epc' = "validate"
    /\ UNCHANGED <<ecall, messages, attempt, eret, eexc, summary_docs,
                   llm_outcomes, validated, episodes>>
    /\ EngineFrame

\* _call_with_retry, lines 241-245 and 269-273: chat_json raises (transport
\* error, or a response that is not JSON); the last attempt re-raises, an
\* earlier one goes round the loop with the same messages.
CallLLMRaises ==
    /\ epc = "call"
    /\ llm_calls' = Append(llm_calls, messages[1])
    /\ llm_outcomes' = Append(llm_outcomes, "exception")
    /\ IF attempt >= MAX_RETRIES
       THEN EngineRaise("LLMError") /\ UNCHANGED attempt
       ELSE attempt' = attempt + 1 /\ UNCHANGED <<epc, eexc>>
    /\ UNCHANGED <<ecall, messages, data, eret, summary_docs, validated, episodes>>
    /\ EngineFrame

\* summarize, lines 114-118: the metadata is added and the result returned,
\* to the caller or to summarize_episode.
SummarizeReturn(d) ==
    /\ eret' = <<[data |-> d, template_name |-> ecall.template_name,
                  enabled_blocks |-> actual_blocks]>>
    /\ epc' = IF ecall.fn = "summarize_episode" THEN "save" ELSE "returned"

\* _add_correction_hint as it would be if the hint replaced the earlier one.
add_correction_hint_replacing(msgs, errors) ==
    <<[msgs[1] EXCEPT !.hints = <<errors>>]>>

\* _add_correction_hint (277-292): a copy of the messages with the errors
\* appended to the user message.
_add_correction_hint(msgs, errors) ==
    <<[msgs[1] EXCEPT !.hints = Append(@, errors)]>>

\* The else branch as it would be if the lenient fill were always allowed
\* one more attempt.
ValidateResponse_retry_always ==
    /\ epc = "validate"
    /\ LET given == [given |-> TRUE, ids |-> Range(actual_blocks)]
           v == validate(data[1], the_template, given, "normal")
           active == _resolve_enabled_blocks(the_template.optional_blocks, given)
       IN /\ validated' = Append(validated, [i \in 1..Len(active) |-> active[i].id])
          /\ IF v.is_valid
             THEN /\ llm_outcomes' = Append(llm_outcomes, "valid")
                  /\ SummarizeReturn(data[1])
                  /\ UNCHANGED <<messages, attempt, data>>
             ELSE /\ llm_outcomes' = Append(llm_outcomes, "invalid")
                  /\ messages' = _add_correction_hint(messages, v.errors)
                  /\ attempt' = IF attempt >= MAX_RETRIES THEN attempt ELSE attempt + 1
                  /\ epc' = "call"
                  /\ UNCHANGED <<data, eret>>
    /\ UNCHANGED <<ecall, eexc, summary_docs, llm_calls, episodes>>
    /\ EngineFrame

\* _call_with_retry, lines 249-267: validate with the resolved block ids;
\* a valid map is returned; an invalid one is filled leniently when retries
\* are off or used up, else a hint is added for the next attempt.
ValidateResponse ==
    /\ epc = "validate"
    /\ LET given == [given |-> TRUE, ids |-> Range(actual_blocks)]
           v == validate(data[1], the_template, given, "normal")
           active == _resolve_enabled_blocks(the_template.optional_blocks, given)
       IN /\ validated' = Append(validated, [i \in 1..Len(active) |-> active[i].id])
          /\ IF v.is_valid
             THEN /\ llm_outcomes' = Append(llm_outcomes, "valid")
                  /\ SummarizeReturn(data[1])
                  /\ UNCHANGED <<messages, attempt, data>>
             ELSE /\ llm_outcomes' = Append(llm_outcomes, "invalid")
                  /\ IF ~ecall.retry_on_failure \/ attempt >= MAX_RETRIES
                     THEN /\ SummarizeReturn(ensure_required_fields(data[1], the_template))
                          /\ UNCHANGED <<messages, attempt, data>>
                     ELSE /\ messages' = _add_correction_hint(messages, v.errors)
                          /\ attempt' = attempt + 1
                          /\ epc' = "call"
                          /\ UNCHANGED <<data, eret>>
    /\ UNCHANGED <<ecall, eexc, summary_docs, llm_calls, episodes>>
    /\ EngineFrame

\* _create_summary_document (294-...) of the result of summarize.
summary_doc == [episode_id |-> ecall.episode_id,
                template_name |-> ecall.template_name,
                enabled_blocks |-> eret[1].enabled_blocks,
                content |-> eret[1].data]

\* summarize_episode, lines 182-218: upsert by (episode_id, template_name);
\* db.summaries has a unique index on episode_id (app/__init__.py 74-75), so
\* the insert of the upsert raises DuplicateKeyError when the episode has a
\* document of another template; then the saved document is read back and
\* the episode marked summarized.
SaveSummary ==
    /\ epc = "save"
    /\ LET e == ecall.episode_id
           same == Stored(e, ecall.template_name)
           others == {i \in 1..Len(summary_docs) : summary_docs[i].episode_id = e}
       IN IF same # {}
          THEN /\ summary_docs' =
                     [summary_docs EXCEPT
                         ![CHOOSE i \in same : \A j \in same : i <= j] = summary_doc]
               /\ eret' = <<summary_doc>>
               /\ episodes' = [episodes EXCEPT ![e].status = STATUS_SUMMARIZED,
                                               ![e].has_summary = TRUE]
               /\ epc' = "returned"
               /\ UNCHANGED eexc
          ELSE IF others # {}
               THEN /\ EngineRaise("DuplicateKeyError")
                    /\ UNCHANGED <<summary_docs, eret, episodes>>
               ELSE /\ summary_docs' = Append(summary_docs, summary_doc)
                    /\ eret' = <<summary_doc>>
                    /\ episodes' = [episodes EXCEPT ![e].status = STATUS_SUMMARIZED,
                                                    ![e].has_summary = TRUE]
                    /\ epc' = "returned"
                    /\ UNCHANGED eexc
    /\ UNCHANGED <<ecall, messages, attempt, data, llm_calls, llm_outcomes, validated>>
    /\ EngineFrame

\* The caller has the result or the exception; the engine can be called again.
Finish ==
    /\ epc \in {"returned", "raised"}
    /\ epc' = "idle"
    /\ ecall' = NoCall
    /\ messages' = << >>
    /\ attempt' = 0
    /\ data' = << >>
    /\ eret' = << >>
    /\ eexc' = "None"
    /\ llm_calls' = << >>
    /\ llm_outcomes' = << >>
    /\ validated' = << >>
    /\ UNCHANGED <<summary_docs, episodes>>
    /\ EngineFrame

InitSummarize ==
    /\ InitThreads
    /\ SummarizerIdle
    /\ FunctionsIdle
    /\ episodes = [e \in Episodes |->
                      [EpisodeDoc(STATUS_TRANSCRIBED, TRUE, FALSE) EXCEPT
                          !.has_transcript = TRUE]]
    /\ transcripts = Episodes
    /\ summaries = {}
    /\ faults = 0

\* One summarize call after the other, the model client answering freely.
NextSummarize ==
    \/ \E n \in TemplateNames, bl \in BlockLists, retry \in BOOLEAN : summarize(n, bl, retry)
    \/ LoadTemplate
    \/ BuildMessages
    \/ CallLLM(LLMData)
    \/ CallLLMRaises
    \/ ValidateResponse
    \/ Finish

SpecSummarize == InitSummarize /\ [][NextSummarize]_vars

\* Two answers of the model client: one valid for both templates, one not.
EpisodeData == {d \in LLMData : DOMAIN d \in {{"tldr", "tags", "title"}, {"tags"}}}

\* One summarize_episode call after the other.
NextEpisode ==
    \/ \E e \in Episodes, n \in TemplateNames, force \in BOOLEAN :
          summarize_episode(e, n, NoBlocks, force)
    \/ LoadTemplate
    \/ BuildMessages
    \/ CallLLM(EpisodeData)
    \/ CallLLMRaises
    \/ ValidateResponse
    \/ SaveSummary
    \/ Finish

SpecEpisode == InitSummarize /\ [][NextEpisode]_vars

\* ================================================================== claims
Terminal == {STATUS_COMPLETED, STATUS_FAILED}

AllowedTransitions ==
    {<<STATUS_PENDING, STATUS_PROCESSING>>, <<STATUS_PROCESSING, STATUS_COMPLETED>>,
     <<STATUS_PROCESSING, STATUS_FAILED>>, <<STATUS_PENDING, STATUS_FAILED>>}

\* C1: every change of a task's status is one of pending->processing,
\* processing->completed, processing->failed, pending->failed; completed and
\* failed are never left.
C1_StatusTransitions ==
    [][\A t \in DOMAIN tasks :
          tasks'[t].status # tasks[t].status =>
              <<tasks[t].status, tasks'[t].status>> \in AllowedTransitions]_vars

\* C2: once cancel returned True for a task, the task is failed with the
\* cancellation message and its job body has not been and is not invoked.
C2_CancelledStaysFailed ==
    \A t \in DOMAIN tasks :
        cancelled[t] => /\ tasks[t].status = STATUS_FAILED
                        /\ tasks[t].error_message = "Cancelled by user"
                        /\ invoked[t] = 0

\* C3: cancel decides on the status it reads (True exactly for pending), and
\* at the moment it returns True the task is failed with the message
\* 'Cancelled by user' and completed_at set.
C3_CancelReturn ==
    [][/\ (cpc = "idle" /\ cpc' = "c_mem") => get_status(ctask').status = STATUS_PENDING
       /\ (cpc = "idle" /\ cpc' = "c_ret") => get_status(ctask').status # STATUS_PENDING
       /\ (cpc = "c_db" /\ cpc' = "c_ret") =>
              /\ cret' = "True"
              /\ tasks'[ctask].status = STATUS_FAILED
              /\ tasks'[ctask].error_message = "Cancelled by user"
              /\ tasks'[ctask].completed_at]_vars

\* C4: completed_at of a task is set iff its status is completed or failed.
C4_CompletedAtIffTerminal ==
    \A t \in DOMAIN tasks :
        tasks[t].completed_at <=> tasks[t].status \in Terminal

\* The stage requests have all been answered.
Quiet == \A h \in Handlers : hpc[h] = "idle"

\* Tasks of a type for an episode that the Status Store holds as pending or
\* processing.
InFlight(ep, type) ==
    {t \in DOMAIN db_tasks : /\ db_tasks[t].episode_id = ep
                             /\ db_tasks[t].task_type = type
                             /\ db_tasks[t].status \notin Terminal}

\* C5 (as stated): at most one task of a type for an entity is pending or
\* processing at any time.
C5_AtMostOneInFlight ==
    \A e \in Episodes, type \in Stages : Cardinality(InFlight(e, type)) <= 1

\* C5 (amended): a request goes on to submit a task only when, at its check,
\* the Status Store holds no pending or processing task of that type for
\* that entity.
C5_SubmitOnlyAfterClearCheck ==
    [][\A h \in Handlers :
          (hpc[h] = "check" /\ hpc'[h] = "submit") =>
              InFlight(hreq[h].ep, hreq[h].stage) = {}]_vars

\* A request, alone in its handler, was let through by the check: the store
\* holds an earlier, finished task of the same type and episode and none in
\* flight.
C5_Witness ==
    \E h \in Handlers :
        /\ hpc[h] = "submit"
        /\ \A h2 \in Handlers \ {h} : hpc[h2] = "idle"
        /\ InFlight(hreq[h].ep, hreq[h].stage) = {}
        /\ \E t \in DOMAIN db_tasks :
              /\ db_tasks[t].episode_id = hreq[h].ep
              /\ db_tasks[t].task_type = hreq[h].stage
              /\ db_tasks[t].status \in Terminal

\* C6: when the job of the only request succeeded and the request was
\* answered, the entity is in the exit status of the stage and the task is
\* completed with progress 100.
C6_SuccessLeavesExitStatus ==
    \A t \in DOMAIN tasks :
        (DOMAIN tasks = {t} /\ Quiet /\ wpc[t] = "done" /\ outcome[t] = "returned") =>
            /\ episodes[tasks[t].episode_id].status = ExitStatus(tasks[t].task_type)
            /\ tasks[t].status = STATUS_COMPLETED
            /\ tasks[t].progress = 100

\* C7: when the job of the only request failed and the request was answered,
\* the entity is back in the status it had before the request.
C7_FailureRevertsStatus ==
    \A t \in DOMAIN tasks :
        (DOMAIN tasks = {t} /\ Quiet /\ wpc[t] = "done" /\ outcome[t] = "raised") =>
            episodes[tasks[t].episode_id].status = pre[t]

\* C8: every task of a stage was created by a request that found the entity
\* in a status for which the guard of the stage holds.
C8_TaskOnlyIfGuard ==
    \A t \in DOMAIN tasks :
        tasks[t].task_type \in Stages => can_enter(tasks[t].task_type, pre[t])

\* C9: a change of the entity status moves it one step forward on the
\* pipeline, unless it is the revert made by a stage job that fails.
C9_OneStepForward ==
    [][\A e \in Episodes :
          episodes'[e].status # episodes[e].status =>
              \/ Rank(episodes'[e].status) = Rank(episodes[e].status) + 1
              \/ \E t \in DOMAIN tasks : /\ tasks[t].episode_id = e
                                         /\ outcome[t] = "none"
                                         /\ outcome'[t] = "raised"]_vars

\* C10: a task that no cancel touched and whose wrapper has ended had its job
\* run to an outcome, and its in-memory status matches that outcome
\* (completed with the result after a normal return, failed after an
\* exception), also when store writes raised.
C10_StoreFaultTolerated ==
    \A t \in DOMAIN tasks :
        (wpc[t] = "done" /\ ~cancelled[t] /\ ctask # t) =>
            /\ outcome[t] # "none"
            /\ outcome[t] = "returned" =>
                  (tasks[t].status = STATUS_COMPLETED /\ tasks[t].result = "result")
            /\ outcome[t] = "raised" => tasks[t].status = STATUS_FAILED

\* C11: whatever value a job passes to the progress callback, the progress
\* kept in memory and in the Status Store is within 0..100.
C11_ProgressInRange ==
    \A t \in DOMAIN tasks :
        /\ tasks[t].progress \in 0..100
        /\ db_tasks[t].progress \in 0..100

\* Descriptions of the exceptions a job ends with.
JobErrors == {"job error", "store error"}

\* C12: when the job of a task raised and its wrapper has ended, get_status
\* reports the task failed, with the description of the exception as
\* error_message and with completed_at set.
C12_JobErrorRecorded ==
    \A t \in DOMAIN tasks :
        (wpc[t] = "done" /\ outcome[t] = "raised") =>
            /\ get_status(t).status = STATUS_FAILED
            /\ get_status(t).error_message \in JobErrors
            /\ get_status(t).completed_at

C14_InvokedAtMostOnce == \A t \in TaskIds : invoked[t] <= 1

\* A task for which cancel returned True, whose job then ran once and raised
\* on a store error, and whose wrapper has ended.
C14_Witness ==
    \E t \in DOMAIN tasks :
        /\ wpc[t] = "done"
        /\ invoked[t] = 1
        /\ outcome[t] = "raised"
        /\ cancelled[t]
        /\ faults > 0

C16_CancelRefusedChangesNothing ==
    [][/\ \A t \in TaskIds :
             (cpc = "idle" /\ cpc' # "idle" /\ ctask' = t
                  /\ get_status(t).status # STATUS_PENDING) =>
                 /\ cpc' = "c_ret" /\ cret' = "False"
                 /\ UNCHANGED <<tasks, db_tasks, queue, wpc, jpc, jexc, invoked, outcome>>
       /\ (cpc = "c_ret" /\ cret = "False" /\ cpc' = "idle") =>
              UNCHANGED <<tasks, db_tasks, queue, wpc, jpc, jexc, invoked, outcome>>]_vars

\* cancel returned False for a task whose job is running.
C16_Witness ==
    /\ cpc = "c_ret"
    /\ cret = "False"
    /\ ctask \in DOMAIN tasks
    /\ tasks[ctask].status = STATUS_PROCESSING
    /\ wpc[ctask] = "job"

\* A thread is between the in-memory half and the store half of an
\* _update_status.
UpdateInProgress ==
    \/ \E t \in TaskIds : wpc[t] \in {"start_db", "complete_db", "fail_db"}
    \/ cpc = "c_db"

\* C17: when no update is in progress, every task of the in-memory map has a
\* Status Store record with the same status, progress, result and
\* error_message.
C17_CacheEqualsStore ==
    ~UpdateInProgress =>
        \A t \in DOMAIN tasks :
            /\ t \in DOMAIN db_tasks
            /\ db_tasks[t].status = tasks[t].status
            /\ db_tasks[t].progress = tasks[t].progress
            /\ db_tasks[t].result = tasks[t].result
            /\ db_tasks[t].error_message = tasks[t].error_message

\* C18: once shutdown was called no task record is registered, and a
\* shutdown that waits returns only when every task handed to the pool is
\* completed or failed.
C18_NoSubmitAfterShutdown ==
    [][/\ _shutdown => (DOMAIN tasks' = DOMAIN tasks /\ DOMAIN db_tasks' = DOMAIN db_tasks)
       /\ (spc = "join" /\ spc' = "returned") =>
              \A t \in DOMAIN tasks :
                  wpc[t] # "none" => get_status(t).status \in Terminal]_vars

\* Error codes by the category they report.
InProgressCodes == {"ALREADY_DOWNLOADING", "ALREADY_TRANSCRIBING", "TASK_IN_PROGRESS"}
CompleteCodes == {"ALREADY_DOWNLOADED", "ALREADY_TRANSCRIBED", "SUMMARY_EXISTS"}
WrongStateCodes == {"INVALID_STATE", "NO_AUDIO_URL", "TRANSCRIPT_NOT_FOUND"}

\* Codes with which the handler of a stage rejects on loading the entity.
EntityCodes(stage) ==
    CASE stage = TYPE_DOWNLOAD -> {"ALREADY_DOWNLOADING", "ALREADY_DOWNLOADED", "INVALID_STATE"}
      [] stage = TYPE_TRANSCRIBE -> {"ALREADY_TRANSCRIBING", "ALREADY_TRANSCRIBED", "NO_AUDIO_URL"}
      [] OTHER -> {"SUMMARY_EXISTS", "TRANSCRIPT_NOT_FOUND"}

\* The codes a request of a stage must be rejected with when the entity is
\* in the given status; the empty set when the guard of the stage holds.
CodesFor(stage, status) ==
    IF status = InProgressStatus(stage) THEN InProgressCodes
    ELSE IF Rank(status) >= Rank(ExitStatus(stage)) THEN CompleteCodes
    ELSE IF ~can_enter(stage, status) THEN WrongStateCodes
    ELSE {}

\* C19: a request of a stage is let through only when the guard of the stage
\* holds for the status of the entity; a request rejected on loading an
\* entity that is in progress, complete or in a wrong prior status for the
\* stage gets a code of the matching category, the three being disjoint.
C19_ThreeWayRejection ==
    [][/\ \A h \in Handlers :
             (hpc[h] = "idle" /\ hpc'[h] = "check") =>
                 can_enter(hreq'[h].stage, hreq'[h].status)
       /\ \A stage \in Stages, e \in Episodes :
             (Quiet /\ Quiet' /\ resp' # resp /\ resp' \in EntityCodes(stage)
                  /\ CodesFor(stage, episodes[e].status) # {}) =>
                 resp' \in CodesFor(stage, episodes[e].status)]_vars

C21_DeleteRegressesOneStage ==
    [][\A h \in Handlers :
          (hpc[h] = "delete" /\ hpc'[h] = "idle" /\ resp' = "deleted") =>
              LET e == hreq[h].ep
                  from == episodes[e].status
                  to == episodes'[e].status IN
              /\ from = STATUS_ERROR => to = STATUS_ERROR
              /\ hreq[h].stage = "delete_transcript" =>
                    /\ from = STATUS_TRANSCRIBED => to = STATUS_DOWNLOADED
                    /\ to # from => (from = STATUS_TRANSCRIBED /\ to = STATUS_DOWNLOADED)
              /\ hreq[h].stage = "delete_summary" =>
                    /\ (from = STATUS_SUMMARIZED /\ \A d \in summaries' : d[1] # e) =>
                          to = STATUS_TRANSCRIBED
                    /\ to # from => (from = STATUS_SUMMARIZED /\ to = STATUS_TRANSCRIBED)]_vars

\* C25: for a budget B >= 1, _truncate_text returns a text of at most B
\* characters unchanged, and of a longer one the first floor(0.6 B)
\* characters, one elision marker and the last floor(0.3 B) characters.
C25_TruncateKeepsHeadAndTail ==
    (arg.fn = "_truncate_text" /\ ret # << >>) =>
        LET t == arg.text
            B == arg.max_chars
            n == Len(t)
        IN IF n <= B THEN ret[1] = t
           ELSE ret[1] = SubSeq(t, 1, (6 * B) \div 10) \o <<Marker>>
                            \o SubSeq(t, n - ((3 * B) \div 10) + 1, n)

\* The blocks a call is about, told from the catalogue without the resolver.
EffectiveBlocks(template, enabled_blocks) ==
    {b \in Range(template.optional_blocks) :
        IF enabled_blocks.given THEN b.id \in enabled_blocks.ids
        ELSE b.enabled_by_default}

Occurrences(errors, v) == Cardinality({i \in 1..Len(errors) : errors[i] = v})

\* C26: validate answers valid exactly when it lists no violation; it lists
\* one violation per absent required field; in strict mode one more per
\* enabled block whose key is absent and one per present block value of the
\* wrong shape; in normal and relaxed mode the map is valid as soon as the
\* required fields are present.
C26_ValidateListsViolations ==
    (arg.fn = "validate" /\ ret # << >>) =>
        LET d == arg.data
            template == prompt_templates[arg.template]
            errors == ret[1].errors
            active == EffectiveBlocks(template, arg.enabled_blocks)
        IN /\ ret[1].is_valid <=> (errors = << >>)
           /\ \A f \in Range(template.required_fields) :
                 Occurrences(errors, Violation("Missing required field", f))
                    = IF f \in DOMAIN d THEN 0 ELSE 1
           /\ arg.strictness = "strict" =>
                 \A b \in active :
                    /\ Occurrences(errors, Violation("Missing field from block", b.key))
                          = IF b.key \in DOMAIN d THEN 0 ELSE 1
                    /\ Occurrences(errors, Violation("must be " \o b.type, b.key))
                          = IF b.key \in DOMAIN d /\ TypeOf(d[b.key]) # b.type
                            THEN 1 ELSE 0
           /\ arg.strictness # "strict" =>
                 (ret[1].is_valid <=> Range(template.required_fields) \subseteq DOMAIN d)

\* A strict validation of a map that has the required fields and lacks the
\* key of the default block key_points listed that one violation.
C26_Witness ==
    /\ arg.fn = "validate"
    /\ arg.strictness = "strict"
    /\ arg.template = "learning"
    /\ ~arg.enabled_blocks.given
    /\ DOMAIN arg.data = {"tldr", "tags"}
    /\ ret # << >>
    /\ ret[1].errors = <<Violation("Missing field from block", "key_points")>>

\* C27: ensure_required_fields returns the map with a default added for the
\* required fields it lacked and for nothing else, every value it had kept;
\* neither it nor validate changes the map it was given.
C27_FillOnlyRequired ==
    [][(ret = << >> /\ ret' # << >>
            /\ arg.fn \in {"ensure_required_fields", "validate"}) =>
          /\ arg' = arg
          /\ arg.fn = "ensure_required_fields" =>
                LET d == arg.data
                    out == ret'[1]
                    required == Range(prompt_templates[arg.template].required_fields)
                IN /\ DOMAIN out = DOMAIN d \cup required
                   /\ \A k \in DOMAIN d : out[k] = d[k]
                   /\ \A k \in DOMAIN out \ DOMAIN d : out[k] \in Defaults]_vars

\* A map without tldr and without the block key key_points was filled.
C27_Witness ==
    /\ arg.fn = "ensure_required_fields"
    /\ arg.template = "learning"
    /\ DOMAIN arg.data = {"tags"}
    /\ ret # << >>
    /\ DOMAIN ret[1] = {"tldr", "tags"}

\* C22: one summarize call invokes the model client at most 3 times; once
\* only when the first answer is valid, and once only when retry_on_failure
\* is false and the first answer is schema-invalid.
C22_AtMostThreeCalls ==
    /\ Len(llm_calls) <= MAX_RETRIES + 1
    /\ (llm_outcomes # << >> /\ llm_outcomes[1] = "valid") => Len(llm_calls) = 1
    /\ (llm_outcomes # << >> /\ llm_outcomes[1] = "invalid"
            /\ ~ecall.retry_on_failure) => Len(llm_calls) = 1

\* A call that met an exception and two invalid answers returned after its
\* third invocation of the client.
C22_Witness ==
    /\ epc = "returned"
    /\ llm_outcomes = <<"exception", "invalid", "invalid">>
    /\ Len(llm_calls) = 3

\* The call is over after answers that were all schema-invalid.
AllInvalid ==
    /\ epc \in {"returned", "raised"}
    /\ ecall.fn = "summarize"
    /\ llm_outcomes # << >>
    /\ \A i \in 1..Len(llm_outcomes) : llm_outcomes[i] = "invalid"

\* C23: when every permitted attempt was answered with a schema-invalid map,
\* summarize returns, the returned map has every required field, and a field
\* the last answer lacked holds the empty string, or the empty list for tags.
C23_LenientEmptyDefaults ==
    AllInvalid =>
        /\ epc = "returned"
        /\ \A f \in Range(the_template.required_fields) :
              /\ f \in DOMAIN eret[1].data
              /\ f \notin DOMAIN data[1] =>
                    eret[1].data[f] = IF f = "tags" THEN "[]" ELSE ""

\* A retry after an exception resent the messages of the failed attempt.
ResendsSame ==
    \A i \in 1..Len(llm_outcomes) :
        (llm_outcomes[i] = "exception" /\ i < Len(llm_calls)) =>
            llm_calls[i + 1] = llm_calls[i]

LastAttemptFailed ==
    /\ Len(llm_outcomes) = MAX_RETRIES + 1
    /\ llm_outcomes[MAX_RETRIES + 1] = "exception"

\* C24: summarize raises exactly when the third attempt ends in an
\* exception, and then propagates it; a retry after an exception resends
\* the same messages.
C24_RaisesIffLastAttemptFails ==
    /\ (epc \in {"returned", "raised"} /\ ecall.fn = "summarize") =>
          /\ epc = "raised" <=> LastAttemptFailed
          /\ epc = "raised" => eexc = "LLMError"
    /\ ResendsSame

\* C28: the blocks of a summarize call are the catalogue blocks whose id the
\* caller listed (an empty list gives none), or the default blocks when no
\* list was given; the prompt, every validation and the returned
\* enabled_blocks name exactly these.
C28_SameBlockSetEverywhere ==
    (ecall.fn = "summarize" /\ ecall.template_name \in ActiveTemplates) =>
        LET E == {b.id : b \in EffectiveBlocks(the_template, ecall.enabled_blocks)} IN
        /\ messages # << >> => Range(messages[1].blocks) = E
        /\ \A i \in 1..Len(llm_calls) : Range(llm_calls[i].blocks) = E
        /\ \A i \in 1..Len(validated) : Range(validated[i]) = E
        /\ (epc = "returned" /\ eret # << >>) =>
              /\ Range(eret[1].enabled_blocks) = E
              /\ Len(eret[1].enabled_blocks) = Cardinality(E)

\* A call with an empty list returned with no block enabled although the
\* template has a default block.
C28_Witness ==
    /\ ecall.fn = "summarize"
    /\ ecall.template_name = "learning"
    /\ ecall.enabled_blocks = [given |-> TRUE, ids |-> {}]
    /\ epc = "returned"
    /\ validated # << >>
    /\ eret[1].enabled_blocks = << >>

\* C29: a summarize call whose template name does not resolve to an active
\* template ends with the template-not-found error, with no prompt built
\* and the model client not invoked.
C29_TemplateNotFoundFirst ==
    (ecall.fn = "summarize" /\ ecall.template_name \notin ActiveTemplates) =>
        /\ epc \in {"load", "raised"}
        /\ epc = "raised" => eexc = "Template not found"
        /\ messages = << >>
        /\ llm_calls = << >>
        /\ eret = << >>

\* The call named a deactivated template and raised.
C29_Witness ==
    /\ ecall.fn = "summarize"
    /\ ecall.template_name = "retired"
    /\ epc = "raised"
    /\ eexc = "Template not found"

Pairs(docs) == {<<docs[i].episode_id, docs[i].template_name>> : i \in 1..Len(docs)}

\* C30: db.summaries holds one document per (episode, template) pair; a
\* summarize_episode call that gets to save its result stores it under its
\* pair, replacing the document of the pair if there is one, never fails and
\* leaves the documents of the other pairs in place.
C30_OneSummaryPerPair ==
    [][/\ Len(summary_docs') = Cardinality(Pairs(summary_docs'))
       /\ epc = "save" =>
             /\ epc' = "returned"
             /\ <<ecall.episode_id, ecall.template_name>> \in Pairs(summary_docs')
             /\ Pairs(summary_docs) \subseteq Pairs(summary_docs')
             /\ \A i \in 1..Len(summary_docs) :
                   summary_docs[i].template_name # ecall.template_name =>
                      \E j \in 1..Len(summary_docs') : summary_docs'[j] = summary_docs[i]]_vars

C32_ActiveTemplateJobCompletes ==
    \A t \in DOMAIN tasks :
        (tasks[t].task_type = TYPE_SUMMARIZE /\ params[t].active) =>
            /\ outcome[t] \in {"none", "returned"}
            /\ tasks[t].status \in Terminal =>
                  /\ tasks[t].status = STATUS_COMPLETED
                  /\ \E d \in summaries : d[1] = tasks[t].episode_id

\* Where a block id stands in the catalogue of the template, and its order.
CataloguePos(id) ==
    CHOOSE i \in 1..Len(the_template.optional_blocks) : the_template.optional_blocks[i].id = id
OrderOf(id) == the_template.optional_blocks[CataloguePos(id)].order

\* C36: in the built prompt the instructions are those of the enabled
\* blocks in ascending order, blocks of equal order in catalogue order; the
\* schema lists the required fields and then the output fields of the
\* enabled blocks in that same sequence.
C36_PromptFollowsBlockOrder ==
    messages # << >> =>
        LET ins == messages[1].instructions
            schema == messages[1].schema
            required == the_template.required_fields
            E == EffectiveBlocks(the_template, ecall.enabled_blocks)
        IN /\ Range(ins) = {b.id : b \in E}
           /\ Len(ins) = Cardinality(E)
           /\ \A i, j \in 1..Len(ins) :
                 i < j => \/ OrderOf(ins[i]) < OrderOf(ins[j])
                          \/ /\ OrderOf(ins[i]) = OrderOf(ins[j])
                             /\ CataloguePos(ins[i]) < CataloguePos(ins[j])
           /\ Len(schema) = Len(required) + Len(ins)
           /\ \A i \in 1..Len(required) : schema[i] = required[i]
           /\ \A i \in 1..Len(ins) :
                 schema[Len(required) + i]
                    = the_template.optional_blocks[CataloguePos(ins[i])].key

\* Both blocks of "learning" are enabled: quotes (order 1) comes before
\* key_points (order 2), against their catalogue order.
C36_Witness ==
    /\ messages # << >>
    /\ ecall.template_name = "learning"
    /\ messages[1].instructions = <<"quotes", "key_points">>
    /\ messages[1].schema = <<"tldr", "tags", "quotes", "key_points">>

\* C35: the retry after a schema-invalid answer keeps the system message and
\* the prompt as they were and appends to the user message one hint that
\* lists every violation of that answer; what was sent before stays as sent.
C35_RetryAppendsHint ==
    [][(epc = "validate" /\ epc' = "call") =>
          LET prev == messages[1]
              next == messages'[1]
              missing == SelectSeq(the_template.required_fields,
                                   LAMBDA f : f \notin DOMAIN data[1])
          IN /\ next.blocks = prev.blocks
             /\ next.instructions = prev.instructions
             /\ next.schema = prev.schema
             /\ Len(next.hints) = Len(prev.hints) + 1
             /\ SubSeq(next.hints, 1, Len(prev.hints)) = prev.hints
             /\ missing # << >>
             /\ next.hints[Len(next.hints)]
                   = [i \in 1..Len(missing) |->
                         Violation("Missing required field", missing[i])]
             /\ llm_calls' = llm_calls
             /\ llm_calls[Len(llm_calls)] = prev]_vars

\* The third attempt was sent with the hints of two invalid answers, the
\* first with none.
C35_Witness ==
    /\ Len(llm_calls) = 3
    /\ SubSeq(llm_outcomes, 1, 2) = <<"invalid", "invalid">>
    /\ llm_calls[1].hints = << >>
    /\ Len(llm_calls[2].hints) = 1
    /\ Len(llm_calls[3].hints) = 2
    /\ llm_calls[3].hints[1] = llm_calls[2].hints[1]

\* Error codes with which a stage request is refused before submitting.
RejectionCodes ==
    InProgressCodes \cup CompleteCodes \cup WrongStateCodes

\* C33: a stage request refused by the guard, by the prerequisite check or
\* by the existing-task check is answered at once with an error code,
\* submits no task and changes neither the entity nor the task records.
C33_RejectionChangesNothing ==
    [][(\/ resp' # resp /\ resp' \in RejectionCodes
        \/ \E h \in Handlers : hpc[h] = "check" /\ hpc'[h] = "idle") =>
           /\ resp' \in RejectionCodes
           /\ \A h \in Handlers : hpc'[h] \in {hpc[h], "idle"}
           /\ UNCHANGED <<tasks, db_tasks, queue, wpc, episodes, transcripts, summaries>>]_vars

\* A transcribe request met the pending or processing task of an earlier one
\* and was refused.
C33_Witness ==
    /\ resp = "TASK_IN_PROGRESS"
    /\ \E t \in DOMAIN db_tasks : /\ db_tasks[t].task_type = TYPE_TRANSCRIBE
                                  /\ db_tasks[t].status \in {STATUS_PENDING, STATUS_PROCESSING}

\* C34: while a task is processing its recorded progress never decreases,
\* on any path of the download, transcribe and summarize jobs, the fall-back
\* from a failed official-transcript download to audio transcription
\* included.
C34_ProgressNeverDecreases ==
    [][\A t \in DOMAIN tasks :
          (tasks[t].status = STATUS_PROCESSING /\ tasks'[t].status = STATUS_PROCESSING) =>
              tasks'[t].progress >= tasks[t].progress]_vars

C38_SubmittedTaskTerminates ==
    \A t \in TaskIds :
        (wpc[t] = "queued") ~>
            [](/\ t \in DOMAIN tasks
               /\ tasks[t].status \in {STATUS_COMPLETED, STATUS_FAILED})

\* C39: once every request handler has returned, an entity in the
\* in-progress status of a stage has a pending or processing task of that
\* stage; a terminal task does not leave it downloading, transcribing or
\* summarizing.
C39_InProgressHasLiveTask ==
    Quiet =>
        \A e \in Episodes, stage \in Stages :
            episodes[e].status = InProgressStatus(stage) =>
                \E t \in DOMAIN tasks :
                    /\ tasks[t].episode_id = e
                    /\ tasks[t].task_type = stage
                    /\ tasks[t].status \in {STATUS_PENDING, STATUS_PROCESSING}

\* C40: whenever no request and no job is under way, has_transcript is true
\* iff a transcript is stored for the entity, has_summary is true iff a
\* summary is stored for it, and a status of transcribed, summarizing or
\* summarized implies a stored transcript.
C40_FlagsMatchArtifacts ==
    (Quiet /\ \A t \in TaskIds : wpc[t] \in {"none", "done"}) =>
        \A e \in Episodes :
            /\ episodes[e].has_transcript <=> e \in transcripts
            /\ episodes[e].has_summary <=> (\E s \in summaries : s[1] = e)
            /\ episodes[e].status \in {STATUS_TRANSCRIBED, STATUS_SUMMARIZING,
                                       STATUS_SUMMARIZED} => e \in transcripts

====
